---------------------------- MODULE Spec2Model ----------------------------
(***************************************************************************)
(* A model of SonicCanvas: the AudioEngine feature extractor and beat      *)
(* detector (src/audio-engine.js), the Visualizer particle field and       *)
(* gesture command gate (class Visualizer, printed in src/README.md), the  *)
(* GestureController command latch (src/gesture-controller.js) and the     *)
(* PerformanceMode optimisations (src/performance-mode.js).                *)
(*                                                                         *)
(* Numbers.  JavaScript doubles are modelled in fixed point:               *)
(*   - magnitudes and levels (0..255) in units of 1/Milli;                 *)
(*   - normalised values (0..1) in units of 1/Milli;                       *)
(*   - NaN is the value NaN, which no computation on numbers yields.       *)
(* Every multiplication by a decimal constant is a multiplication by its   *)
(* numerator followed by a floor division by its denominator.              *)
(***************************************************************************)
EXTENDS Integers, Sequences, FiniteSets, TLC

\* ------------------------------------------------------------------------
\* Bounds of the model
\* ------------------------------------------------------------------------

\* fixed-point resolution: units per 1.0
Milli == 1000

\* fixed-point resolution of positions and velocities: units per 1.0
Centi == 100

\* fixed-point resolution of pulseIntensity: units per 1.0
Micro == 1000000

\* handler calls (key presses, gestures, start and stop) explored between
\* the animation frames of SpecFreeze
MaxEvents == 3

\* handler calls explored between the animation frames of SpecField
MaxFieldEvents == 2

\* handler calls explored between the animation frames of SpecPalette: a
\* start and five gestures, three of them peace signs
MaxPaletteEvents == 6

\* handler calls explored between the animation frames of SpecPulse
MaxPulseEvents == 2

\* particles of the field (this.particleCount, 2000 in the program)
ParticleCount == 3

\* particles of the fields with connections: more than the 200 particles
\* updateParticlesNeural looks at, so that the particles 200 and 205 exist
NeuralParticles == 206

\* particles of the fields with bars: one more than the 64 bars of Minimal
\* mode hold
BarParticles == 65

\* animation frames explored by SpecField and SpecFreeze
MaxFrames == 2

\* animation frames explored by SpecPulse
MaxPulseFrames == 33

\* the wall clock reading (Date.now(), ms) when the engine is constructed
StartTime == 1000

\* detectBeat calls explored by SpecBeat
MaxBeatCalls == 4

\* milliseconds of clock explored by SpecConst
MaxConstElapsed == 450

\* arbitrary detectBeat calls before the constant input of SpecConst
MaxPrelude == 1

\* getFrequencyData calls explored by SpecAudio
MaxAudioCalls == 3

\* ------------------------------------------------------------------------
\* Program constants
\* ------------------------------------------------------------------------

\* this.beatThreshold = 1.3, in tenths
BeatThresholdTenths == 13

\* this.beatDecayRate = 0.98, in hundredths
BeatDecayPercent == 98

\* this.beatMinInterval = 200 (ms)
BeatMinInterval == 200

\* this.analyser.fftSize = 2048
FftSize == 2048

\* analyser.frequencyBinCount: half the FFT size
BufferLength == FftSize \div 2

\* the largest value of a Uint8Array element
MaxByte == 255

\* the result of 0/0 and of arithmetic on undefined
NaN == -1

\* a NaN coordinate of a position or a velocity
NaNCoord == 2000000000

\* the delay of the setTimeout that resets commands.pulse (ms)
PulseHold == 500

\* the delay of the setTimeout of applyOptimizations (ms)
PerfTestDelay == 1000

\* this.frequencyBands
BandNames == {"sub", "bass", "low", "mid", "high", "treble"}

frequencyBands ==
    [sub    |-> [start |-> 0,    end |-> 60],
     bass   |-> [start |-> 60,   end |-> 250],
     low    |-> [start |-> 250,  end |-> 500],
     mid    |-> [start |-> 500,  end |-> 2000],
     high   |-> [start |-> 2000, end |-> 4000],
     treble |-> [start |-> 4000, end |-> 8000]]

\* ------------------------------------------------------------------------
\* Inputs
\* ------------------------------------------------------------------------

\* audioContext.sampleRate: the rate of the output device, fixed when the
\* context is created (8 kHz and 16 kHz are Bluetooth hands-free rates)
SampleRates == {8000, 16000, 44100, 48000, 192000}

\* milliseconds between two readings of the clock (non-decreasing clock)
ClockSteps == {0, 200, 201}

\* milliseconds between two getFrequencyData calls
FrameSteps == {16, 250}

\* averages handed to detectBeat, in 1/Milli of a magnitude unit
Averages == {0, 50 * Milli, 100 * Milli, 255 * Milli}

Max(a, b) == IF a >= b THEN a ELSE b

Min(a, b) == IF a <= b THEN a ELSE b

VARIABLES
    analyser,        \* TRUE when this.analyser is set
    dataArray,       \* this.dataArray: <<>> when null, else its BufferLength bytes as runs
    sampleRate,      \* this.audioContext.sampleRate
    now,             \* the wall clock, Date.now()
    lastBeatTime,    \* this.lastBeatTime
    currentBeat,     \* this.currentBeat (the running level), 1/Milli magnitude
    currentAverage,  \* the argument of the last detectBeat call
    beatDetected,    \* the value the last detectBeat call returned
    lastResult,      \* the value the last getFrequencyData call returned
    beats,           \* history: the clock readings of the calls that reported a beat
    calls,           \* history: number of calls made
    constInput,      \* the constant average of SpecConst
    preludeLeft      \* SpecConst: arbitrary calls still allowed before the constant input

VARIABLES
    particleCount,        \* this.particleCount
    particlePositions,    \* this.particlePositions: one <<x, y, z>> per particle
    particleVelocities,   \* this.particleVelocities
    particleColors,       \* this.particleColors (and the color attribute): <<h, s, l>>
    positions,            \* the position attribute: the flat array of 3 N numbers
    sizes,                \* the size attribute
    time,                 \* this.time
    spiralAngle,          \* this.spiralAngle
    bassIntensity,        \* this.bassIntensity
    midIntensity,         \* this.midIntensity
    trebleIntensity,      \* this.trebleIntensity
    spikeIntensity,       \* this.spikeIntensity
    camera,               \* cameraAngle, cameraRadius, cameraShake, cameraShakeIntensity, camera.position
    isFrozen,             \* this.isFrozen
    pulseEffect,          \* this.pulseEffect
    pulseIntensity,       \* this.pulseIntensity
    currentPalette,       \* this.currentPalette
    radialSymmetry,       \* this.radialSymmetry
    trail,                \* this.trailEffect and this.trailOpacity
    visualMode,           \* this.visualMode
    particleConnections,  \* this.particleConnections: the lines of Neural mode
    isRunning,            \* this.isRunning
    decayChains,          \* decayPulse callbacks waiting for the next animation frame
    rafOrder,             \* whether the render tick runs before or after them in a frame
    frames,               \* history: animation frames so far
    pulseArg,             \* history: the argument of the last triggerPulse call
    pulseAge,             \* history: animation frames since the last triggerPulse call
    pulsesStarted,        \* history: triggerPulse calls so far
    lastTick              \* history: what the last render tick did

VARIABLES
    commands,             \* GestureController.commands
    currentGesture,       \* GestureController.currentGesture
    pulseTimers,          \* deadlines of the pending 500 ms pulse resets
    palmGestures,         \* history: palm gestures so far
    gestureHistory,       \* GestureController.gestureHistory
    detections,           \* history: every result handed to updateGesture
    fired,                \* history: the gestures onGestureChange was called with
    session,              \* history: the results and the gestures fired since the last
                          \* start() that turned the controller on
    gestureRunning,       \* GestureController.isRunning
    inFlight,             \* detection callbacks awaiting model.estimateHands
    stopped,              \* history: stop() has returned and start() was not called since
    startsAwaiting,       \* start() calls awaiting navigator.mediaDevices.getUserMedia
    liveStreams,          \* webcam streams obtained whose tracks were not stopped
    liveIntervals         \* detection intervals set and not cleared

VARIABLES
    perfActive,             \* PerformanceMode.isActive
    reducedParticles,       \* PerformanceMode.reducedParticles
    originalParticleCount,  \* PerformanceMode.originalParticleCount
    perfTimers,             \* pending 1 s performance tests
    hiddenElements,         \* PerformanceMode.hiddenElements
    displayBefore           \* history: every style.display at the last enter() that hid the UI

VARIABLES
    currentPreset,        \* PresetManager.currentPreset
    transition,           \* PresetManager: the transition in progress, if any
    presetCall,           \* history: the applyPreset calls so far, and the name of the last
    events,               \* history: handler calls so far
    twin                  \* the particle field of a second, independent run fed the same
                          \* inputs (Null where no second run is followed)

VARIABLES
    isRecording,          \* Recorder.isRecording
    recordingStartTime,   \* Recorder.recordingStartTime
    autoStopTimers,       \* deadlines of the pending auto-stop timeouts of startRecording
    lastStop,             \* history: what ended the last recording, and after how long
    mediaRecorders,       \* the state of the MediaRecorder of every recording, in order
    recordedChunks,       \* Recorder.recordedChunks: each chunk named by its recording
    produced,             \* history: the chunks every recording's MediaRecorder delivered
    downloads             \* history: the blobs handed to downloadRecording, in order

VARIABLES
    isMicActive,          \* AudioEngine.isMicActive
    micStream,            \* AudioEngine.micStream holds a stream (TRUE) or null (FALSE)
    sourceNode,           \* AudioEngine.sourceNode: what it was created from, if anything
    micAwaiting,          \* toggleMicrophone() calls awaiting getUserMedia
    liveMicStreams        \* microphone streams obtained whose tracks were not stopped

VARIABLES
    demoActive,           \* DemoMode.isActive
    currentStep,          \* DemoMode.currentStep
    stepTimeout,          \* the deadline of the pending step timeout (NoTimer if none)
    overlay,              \* DemoMode.overlayElement.style.display
    hideTimers,           \* deadlines of the pending overlay-hiding timeouts of stop()
    demoActions           \* history: the steps whose action ran since the last start()

VARIABLES
    display               \* element.style.display of the elements uiSelectors matches

audioVars == <<analyser, dataArray, sampleRate, now, lastBeatTime, currentBeat,
               currentAverage, beatDetected, lastResult, beats, calls,
               constInput, preludeLeft>>

fieldVars == <<particleCount, particlePositions, particleVelocities, particleColors,
               positions, sizes>>

motionVars == <<time, spiralAngle, bassIntensity, midIntensity, trebleIntensity,
                spikeIntensity, camera, particleConnections>>

gateVars == <<isFrozen, pulseEffect, pulseIntensity, currentPalette, decayChains,
              pulseArg, pulseAge, pulsesStarted>>

visVars == <<fieldVars, motionVars, gateVars, radialSymmetry, trail, visualMode, isRunning,
             rafOrder, frames, lastTick>>

loopVars == <<gestureRunning, inFlight, stopped, startsAwaiting, liveStreams, liveIntervals>>

gestureVars == <<commands, currentGesture, pulseTimers, palmGestures, gestureHistory,
                 detections, fired, session, loopVars>>

perfVars == <<perfActive, reducedParticles, originalParticleCount, perfTimers,
              hiddenElements, displayBefore>>

presetVars == <<currentPreset, transition, presetCall>>

chunkVars == <<mediaRecorders, recordedChunks, produced, downloads>>

recorderVars == <<isRecording, recordingStartTime, autoStopTimers, lastStop, chunkVars>>

micVars == <<isMicActive, micStream, sourceNode, micAwaiting, liveMicStreams>>

demoVars == <<demoActive, currentStep, stepTimeout, overlay, hideTimers, demoActions>>

vars == <<audioVars, visVars, gestureVars, perfVars, presetVars, recorderVars, micVars, demoVars, display, events,
          twin>>


\* ------------------------------------------------------------------------
\* AudioEngine (src/audio-engine.js)
\* ------------------------------------------------------------------------

\* this.dataArray = null
Null == <<>>

\* A Uint8Array of BufferLength bytes is written as the sequence of its runs:
\* [n |-> length, v |-> byte], the lengths adding up to BufferLength.
Run(n, v) == [n |-> n, v |-> v]

\* the runs of positive length
Runs(segments) == SelectSeq(segments, LAMBDA r : r.n > 0)

\* new Uint8Array(this.bufferLength): all zero
ZeroArray == <<Run(BufferLength, 0)>>

\* Math.floor((hz / nyquist) * this.bufferLength), nyquist = sampleRate / 2
HzToBin(hz, rate) == (hz * 2 * BufferLength) \div rate

startBin(name, rate) == HzToBin(frequencyBands[name].start, rate)

endBin(name, rate) == HzToBin(frequencyBands[name].end, rate)

\* the sum of data[lo .. hi-1], 0 <= lo <= hi <= BufferLength: run k covers
\* the indices from .. from + n - 1
RECURSIVE SumRuns(_, _, _, _, _)
SumRuns(data, k, from, lo, hi) ==
    IF k > Len(data) THEN 0
    ELSE LET upto    == from + data[k].n
             overlap == Min(upto, hi) - Max(from, lo)
         IN  (IF overlap > 0 THEN overlap * data[k].v ELSE 0)
             + SumRuns(data, k + 1, upto, lo, hi)

SumRange(data, lo, hi) == SumRuns(data, 1, 0, lo, hi)

\* one band of extractFrequencyBands: (sum / (endBin - startBin)) / 255.
\* An empty bin range divides 0 by 0; a bin past the end of the array reads
\* undefined, and sum += undefined is NaN.
BandEnergy(data, rate, name) ==
    LET s == startBin(name, rate)
        e == endBin(name, rate)
    IN  IF e = s THEN NaN
        ELSE IF e < s THEN 0
        ELSE IF e > BufferLength THEN NaN
        ELSE (SumRange(data, s, e) * Milli) \div ((e - s) * MaxByte)

extractFrequencyBands(data, rate) ==
    [name \in BandNames |-> BandEnergy(data, rate, name)]

ZeroBands == [name \in BandNames |-> 0]

\* the safe default of getFrequencyData
DefaultFrequencyData ==
    [frequencyData |-> "zeros", average |-> 0, beat |-> FALSE,
     beatIntensity |-> 0, bands |-> ZeroBands]

\* nothing returned yet
NoResult == [DefaultFrequencyData EXCEPT !.frequencyData = "none"]

\* the guard with its condition inverted
NotInitializedInverted == analyser /\ dataArray # Null

\* !this.analyser || !this.dataArray
NotInitialized == (~analyser) \/ dataArray = Null

\* the interval check comparing with 0 instead of beatMinInterval
IntervalPassedNoMinimum(t, last) == t - last >= 0

\* now - this.lastBeatTime > this.beatMinInterval
IntervalPassed(t, last) == t - last > BeatMinInterval

\* the threshold met rather than exceeded
ExceedsThresholdOrEqual(avg, level) == avg * 10 >= level * 13

\* currentAverage > this.currentBeat * this.beatThreshold
ExceedsThreshold(avg, level) == avg * 10 > level * BeatThresholdTenths

\* the decay line left out
DecayBeatNoDecay(level, avg) == Max(level, avg \div 2)

\* the floor at half the average left out
DecayBeatNoFloor(level, avg) == (level * 98) \div 100

\* this.currentBeat *= this.beatDecayRate;
\* this.currentBeat = Math.max(this.currentBeat, currentAverage * 0.5)
DecayBeat(level, avg) == Max((level * BeatDecayPercent) \div 100, avg \div 2)

\* the two nested conditions of detectBeat, read at clock reading t
BeatFires(avg, t) ==
    IntervalPassed(t, lastBeatTime) /\ ExceedsThreshold(avg, currentBeat)

\* this.currentBeat when detectBeat(avg), called at clock reading t, returns
LevelAfter(avg, t) == DecayBeat(IF BeatFires(avg, t) THEN avg ELSE currentBeat, avg)

\* detectBeat(currentAverage) called at clock reading t
detectBeat(avg, t) ==
    /\ currentAverage' = avg
    /\ beatDetected' = BeatFires(avg, t)
    /\ lastBeatTime' = IF BeatFires(avg, t) THEN t ELSE lastBeatTime
    /\ currentBeat' = LevelAfter(avg, t)
    /\ beats' = IF BeatFires(avg, t) THEN Append(beats, t) ELSE beats

\* a call of detectBeat, dt milliseconds after the previous reading of the clock
DetectBeatCall(dt, avg) ==
    /\ calls < MaxBeatCalls
    /\ now' = now + dt
    /\ calls' = calls + 1
    /\ detectBeat(avg, now + dt)
    /\ UNCHANGED <<analyser, dataArray, sampleRate, lastResult, constInput, preludeLeft>>

\* the spectra analyser.getByteFrequencyData writes into dataArray
SilentSpectrum == ZeroArray

FullSpectrum == <<Run(BufferLength, MaxByte)>>

\* the lower half of the bins at 255, the upper half at 64
StepSpectrum == <<Run(BufferLength \div 2, MaxByte), Run(BufferLength - BufferLength \div 2, 64)>>

\* the bins of the bass band at 2, every other bin at 255
QuietBassSpectrum(rate) ==
    LET s == Min(startBin("bass", rate), BufferLength)
        e == Min(endBin("bass", rate), BufferLength)
    IN  Runs(<<Run(s, MaxByte), Run(e - s, 2), Run(BufferLength - e, MaxByte)>>)

\* the bins of the bass band at 200, every other bin at 0
BassSpectrum(rate) ==
    LET s == Min(startBin("bass", rate), BufferLength)
        e == Min(endBin("bass", rate), BufferLength)
    IN  Runs(<<Run(s, 0), Run(e - s, 200), Run(BufferLength - e, 0)>>)

Spectra(rate) == {SilentSpectrum, FullSpectrum, StepSpectrum, BassSpectrum(rate)}

\* this.dataArray.reduce((sum, value) => sum + value, 0) / this.bufferLength
AverageOf(spectrum) == (SumRange(spectrum, 0, BufferLength) * Milli) \div BufferLength

\* the object getFrequencyData() returns at clock reading t, the analyser
\* delivering `spectrum`
FrequencyData(t, spectrum) ==
    IF NotInitialized
    THEN DefaultFrequencyData
    ELSE [frequencyData |-> "dataArray",
          average       |-> AverageOf(spectrum) \div MaxByte,
          beat          |-> BeatFires(AverageOf(spectrum), t),
          beatIntensity |-> LevelAfter(AverageOf(spectrum), t) \div MaxByte,
          bands         |-> extractFrequencyBands(spectrum, sampleRate)]

\* this.dataArray after getFrequencyData()
FilledArray(spectrum) == IF NotInitialized THEN dataArray ELSE spectrum

\* getFrequencyData() at clock reading t, the analyser delivering `spectrum`
getFrequencyData(t, spectrum) ==
    /\ calls' = calls + 1
    /\ dataArray' = FilledArray(spectrum)
    /\ IF NotInitialized
       THEN UNCHANGED <<lastBeatTime, currentBeat, currentAverage, beatDetected, beats>>
       ELSE detectBeat(AverageOf(spectrum), t)
    /\ lastResult' = FrequencyData(t, spectrum)

\* a call of getFrequencyData, dt milliseconds after the previous reading of
\* the clock
GetFrequencyData(dt, spectrum) ==
    /\ calls < MaxAudioCalls
    /\ now' = now + dt
    /\ getFrequencyData(now + dt, spectrum)
    /\ UNCHANGED <<analyser, sampleRate, constInput, preludeLeft>>

\* ------------------------------------------------------------------------
\* Fixed-point arithmetic of the visualizer
\*
\* Positions and velocities are integers in units of 1/Centi; spectrum
\* samples, band energies, intensities, angles (radians), this.time, colors
\* and sizes are integers in units of 1/Milli; pulseIntensity is an integer
\* in units of 1/Micro. Every product is rounded down.
\* ------------------------------------------------------------------------

Abs(x) == IF x < 0 THEN -x ELSE x

Clamp(x, lo, hi) == Max(lo, Min(x, hi))

\* num/den as a Milli quantity
Frac(num, den) == (num * Milli) \div den

\* a number of scene units as a Centi quantity
Units(n) == n * Centi

\* a Milli quantity as a Centi quantity
ToCenti(m) == (m * Centi) \div Milli

\* a Micro quantity as a Milli quantity
ToMilli(u) == u \div (Micro \div Milli)

\* the product of two Milli quantities
MulMilli(a, b) == (a * b) \div Milli

RECURSIVE IsqrtBetween(_, _, _)
\* the largest r in lo .. hi - 1 with r * r <= n
IsqrtBetween(n, lo, hi) ==
    IF hi - lo <= 1
    THEN lo
    ELSE LET mid == (lo + hi) \div 2
         IN  IF mid * mid <= n
             THEN IsqrtBetween(n, mid, hi)
             ELSE IsqrtBetween(n, lo, mid)

\* Math.sqrt, rounded down
Isqrt(n) == IsqrtBetween(n, 0, 46341)

\* Math.PI
PiMilli == Frac(355, 113)

\* Math.sin (Bhaskara's approximation, exact at the multiples of pi/2)
Sin(a) ==
    LET t == a % (2 * PiMilli)
        x == IF t > PiMilli THEN t - PiMilli ELSE t
        p == (x * (PiMilli - x)) \div Milli
        s == (16 * Milli * p) \div ((5 * PiMilli * PiMilli) \div Milli - 4 * p)
    IN  IF t > PiMilli THEN -s ELSE s

\* Math.cos
Cos(a) == Sin(a + PiMilli \div 2)

Vec(x, y, z) == <<x, y, z>>

\* a THREE.Vector3 whose components are NaN
NaNVec == Vec(NaNCoord, NaNCoord, NaNCoord)

\* a THREE.Color whose components are NaN
NaNColor == <<NaN, NaN, NaN>>

ZeroVec == Vec(0, 0, 0)

\* Math.sqrt(x * x + y * y + z * z)
Length(v) ==
    IF \A k \in 1 .. 3 : Abs(v[k]) < 26000
    THEN Isqrt(v[1] * v[1] + v[2] * v[2] + v[3] * v[3])
    ELSE 4 * Isqrt((v[1] \div 4) * (v[1] \div 4) + (v[2] \div 4) * (v[2] \div 4)
                   + (v[3] \div 4) * (v[3] \div 4))

Add(v, w) == Vec(v[1] + w[1], v[2] + w[2], v[3] + w[3])

\* v scaled by num/den
Scaled(v, num, den) == Vec((v[1] * num) \div den, (v[2] * num) \div den, (v[3] * num) \div den)

\* pos / d: a direction with Milli components
Direction(pos, d) == Scaled(pos, Milli, d)

\* a Milli direction times a Milli magnitude times num/den, in Centi
Impulse(dir, magnitude, num, den) ==
    Vec((ToCenti(MulMilli(dir[1], magnitude)) * num) \div den,
        (ToCenti(MulMilli(dir[2], magnitude)) * num) \div den,
        (ToCenti(MulMilli(dir[3], magnitude)) * num) \div den)

\* ------------------------------------------------------------------------
\* Visualizer: palettes, spectrum sampling, colors
\* ------------------------------------------------------------------------

\* this.colorPalettes, in the order of paletteNames
colorPalettes ==
    <<[hueBase |-> Frac(1, 2),   hueRange |-> Frac(3, 10), saturation |-> Frac(1, 1)],
      [hueBase |-> Frac(1, 20),  hueRange |-> Frac(3, 20), saturation |-> Frac(9, 10)],
      [hueBase |-> Frac(11, 20), hueRange |-> Frac(3, 20), saturation |-> Frac(4, 5)]>>

Palette(index) == colorPalettes[index + 1]

\* color.setHSL(h, s, l): the hue wraps into [0, 1), s and l are clamped
setHSL(h, s, l) == <<h % Milli, Clamp(s, 0, Milli), Clamp(l, 0, Milli)>>

RECURSIVE ArrayLength(_)
\* frequencyData.length
ArrayLength(data) ==
    IF data = <<>> THEN 0 ELSE Head(data).n + ArrayLength(Tail(data))

RECURSIVE ValueAt(_, _)
\* frequencyData[index]
ValueAt(data, index) ==
    IF index < Head(data).n
    THEN Head(data).v
    ELSE ValueAt(Tail(data), index - Head(data).n)

\* the proportional map rounded up
FreqIndexCeil(i, count, len) == (i * len + count - 1) \div count

\* Math.floor((i / this.particleCount) * frequencyData.length)
FreqIndex(i, count, len) == (i * len) \div count

\* frequencyData[freqIndex] / 255
FreqValue(data, i, count) ==
    (ValueAt(data, FreqIndex(i, count, ArrayLength(data))) * Milli) \div MaxByte

\* the array audioData.frequencyData refers to
FrequencyArray(result, array) ==
    IF result.frequencyData = "dataArray" THEN array ELSE ZeroArray

\* a band energy times num/den (NaN stays NaN)
BandTimes(energy, num, den) == IF energy = NaN THEN NaN ELSE (energy * num) \div den

\* ------------------------------------------------------------------------
\* Visualizer: the mode update rules, one particle at a time
\*
\* A particle is [pos, vel, color, size]; i is its index, counted from 0.
\* ctx holds what the rule reads besides the particle: data, average, beat,
\* beatIntensity, bassIntensity, midIntensity, time, spiralAngle,
\* pulseEffect, pulseIntensity, palette, count and rnd (the values
\* Math.random() - 0.5 takes in this tick).
\* ------------------------------------------------------------------------

Particle(pos, vel, color, size) == [pos |-> pos, vel |-> vel, color |-> color, size |-> size]

IsNaN(p) == p.pos = NaNVec \/ p.vel = NaNVec

\* this.pulseEffect ? this.pulseIntensity : beatIntensity
PulseStrength(ctx) ==
    IF ctx.pulseEffect THEN ToMilli(ctx.pulseIntensity) ELSE ctx.beatIntensity

\* beat ? beatIntensity : 0
BeatSize(ctx) == IF ctx.beat THEN ctx.beatIntensity ELSE 0

\* this.pulseEffect ? this.pulseIntensity * 2 : 0
PulseSize(ctx) == IF ctx.pulseEffect THEN ToMilli(ctx.pulseIntensity) * 2 ELSE 0

\* the palette color of updateParticles and updateParticleColors
FrequencyColor(freq, ctx) ==
    setHSL(ctx.palette.hueBase + MulMilli(freq, ctx.palette.hueRange) - ctx.average \div 5,
           ctx.palette.saturation + freq \div 10,
           Frac(2, 5) + (freq * 2) \div 5)

\* the loop body of updateParticles
ParticleDefault(i, p, ctx) ==
    LET freq     == FreqValue(ctx.data, i, ctx.count)
        distance == IF IsNaN(p) THEN 0 ELSE Length(p.pos)
        color    == FrequencyColor(freq, ctx)
        size     == Milli + freq * 3 + BeatSize(ctx) + PulseSize(ctx)
    IN  IF distance = 0
        THEN Particle(NaNVec, NaNVec, color, size)
        ELSE LET dir     == Direction(p.pos, distance)
                 vel1    == Add(p.vel, Impulse(dir, freq * 5, 1, 10))
                 vel2    == IF ctx.beat \/ ctx.pulseEffect
                            THEN Add(vel1, Impulse(dir, PulseStrength(ctx), 1, 2))
                            ELSE vel1
                 pos1    == Add(p.pos, vel2)
                 target  == Units(100) + ToCenti(ctx.bassIntensity * 50)
                 restore == (target - distance) \div 100
             IN  Particle(Add(pos1, Scaled(dir, restore, Milli)),
                          Scaled(vel2, 95, 100), color, size)

\* the loop body of updateParticleColors
ParticleColors(i, p, ctx) ==
    LET freq == FreqValue(ctx.data, i, ctx.count)
    IN  Particle(p.pos, p.vel, FrequencyColor(freq, ctx),
                 Milli + freq * 3 + PulseSize(ctx))

\* the target radius without the spiral arms of the bass
TargetRadiusNoBass(i, ctx) ==
    100 * Centi + (((ValueAt(ctx.data, (i * ArrayLength(ctx.data)) \div ctx.count) * Milli)
                        \div 255) * 50 * Centi) \div Milli

\* const targetRadius = 100 + this.bassIntensity * 80 + freqValue * 50
TargetRadius(i, ctx) ==
    Units(100) + ToCenti(ctx.bassIntensity * 80)
        + ToCenti(FreqValue(ctx.data, i, ctx.count) * 50)

\* the loop body of updateParticlesCosmic
ParticleCosmic(i, p, ctx) ==
    LET freq == FreqValue(ctx.data, i, ctx.count)
        size == Milli + freq * 4 + BeatSize(ctx)
    IN  IF IsNaN(p)
        THEN Particle(NaNVec, NaNVec, NaNColor, size)
        ELSE LET distance == Length(Vec(p.pos[1], 0, p.pos[3]))
                 delta    == ctx.spiralAngle \div 10
                 cosTheta == IF distance = 0 THEN Milli ELSE (p.pos[1] * Milli) \div distance
                 sinTheta == IF distance = 0 THEN 0 ELSE (p.pos[3] * Milli) \div distance
                 cosAngle == MulMilli(cosTheta, Cos(delta)) - MulMilli(sinTheta, Sin(delta))
                 sinAngle == MulMilli(sinTheta, Cos(delta)) + MulMilli(cosTheta, Sin(delta))
                 radius   == TargetRadius(i, ctx)
                 targetX  == (cosAngle * radius) \div Milli
                 targetZ  == (sinAngle * radius) \div Milli
                 vel1     == Add(p.vel, Vec((targetX - p.pos[1]) \div 100,
                                            (ToCenti(freq * 50) - p.pos[2]) \div 100,
                                            (targetZ - p.pos[3]) \div 100))
                 dir      == Direction(Vec(p.pos[1], 0, p.pos[3]), Max(distance, Units(1)))
                 vel2     == IF ctx.beat \/ ctx.pulseEffect
                             THEN Add(vel1, Impulse(dir, PulseStrength(ctx), 1, 2))
                             ELSE vel1
                 dist     == Min((distance * Milli) \div Units(200), Milli)
             IN  Particle(Add(p.pos, vel2), Scaled(vel2, 92, 100),
                          setHSL(ctx.palette.hueBase + MulMilli(dist, ctx.palette.hueRange),
                                 ctx.palette.saturation, Frac(1, 2) + freq \div 2),
                          size)

\* the loop body of updateParticlesPulse
ParticlePulse(i, p, ctx) ==
    LET freq  == FreqValue(ctx.data, i, ctx.count)
        phase == Sin(ctx.time * 2 + (i * 4 * PiMilli) \div ctx.count)
        color == setHSL(ctx.palette.hueBase
                            + MulMilli(phase \div 2 + Frac(1, 2), ctx.palette.hueRange),
                        ctx.palette.saturation, Frac(2, 5) + (freq * 3) \div 5)
        size  == 2 * Milli + freq * 5 + Abs(phase) * 2
    IN  IF IsNaN(p)
        THEN Particle(NaNVec, NaNVec, color, size)
        ELSE LET distance == Length(p.pos)
                 dir      == Direction(p.pos, Max(distance, Units(1)))
                 target   == Units(80) + ToCenti(phase * 40) + ToCenti(freq * 60)
                                 + ToCenti(ctx.bassIntensity * 40)
                 force    == (target - distance) \div 20
                 vel1     == Add(p.vel, Scaled(dir, force, Milli))
                 vel2     == IF ctx.beat
                             THEN Add(vel1, Impulse(dir, ctx.beatIntensity, 2, 1))
                             ELSE vel1
             IN  Particle(Add(p.pos, vel2), Scaled(vel2, 88, 100), color, size)

\* the loop body of updateParticlesChaos
ParticleChaos(i, p, ctx) ==
    LET freq  == FreqValue(ctx.data, i, ctx.count)
        color == setHSL(ctx.palette.hueBase
                            + MulMilli(Sin(ctx.time * 5 + i * Frac(1, 10)), ctx.palette.hueRange),
                        ctx.palette.saturation, Frac(3, 10) + (freq * 7) \div 10)
        size  == Milli + freq * 6
    IN  IF IsNaN(p)
        THEN Particle(NaNVec, NaNVec, color, size)
        ELSE LET chaos    == Vec(Sin(ctx.time * 3 + i * Frac(1, 10)),
                                 Cos(ctx.time * 4 + i * Frac(3, 20)),
                                 Sin((ctx.time * 5) \div 2 + i * Frac(3, 25)))
                 jitter   == Vec(ctx.rnd[(i % 3) + 1], ctx.rnd[((i + 1) % 3) + 1],
                                 ctx.rnd[((i + 2) % 3) + 1])
                 vel1     == Add(p.vel, Impulse(chaos, freq * 5, 1, 10))
                 vel2     == IF ctx.beat
                             THEN Add(vel1, Impulse(jitter, ctx.beatIntensity, 3, 1))
                             ELSE vel1
                 distance == Length(p.pos)
                 vel3     == IF distance > Units(200)
                             THEN Add(vel2, Scaled(Direction(p.pos, distance), -Centi, 2 * Milli))
                             ELSE vel2
             IN  Particle(Add(p.pos, vel3), Scaled(vel3, 96, 100), color, size)

\* const barCount = 64
BarCount == 64

\* the particles per bar rounded up
ParticlesPerBarCeil(count) == (count + 63) \div 64

\* Math.floor(this.particleCount / barCount)
ParticlesPerBar(count) == count \div BarCount

\* the body of the inner loop of updateParticlesMinimal, for the particles
\* the two loops reach
ParticleMinimal(i, p, ctx) ==
    LET perBar == ParticlesPerBar(ctx.count)
    IN  IF perBar = 0 \/ i >= BarCount * perBar
        THEN p
        ELSE LET bar    == i \div perBar
                 freq   == (ValueAt(ctx.data, FreqIndex(bar, BarCount, ArrayLength(ctx.data)))
                                * Milli) \div MaxByte
                 x      == Units((bar - BarCount \div 2) * 8)
                 y      == ((i % perBar) * ToCenti(freq * 150)) \div perBar - Units(50)
                 target == Vec(x, y, 0)
                 pos    == IF p.pos = NaNVec
                           THEN NaNVec
                           ELSE Add(p.pos, Scaled(Add(target, Scaled(p.pos, -1, 1)), 15, 100))
             IN  Particle(pos, p.vel,
                          setHSL(ctx.palette.hueBase
                                     + MulMilli((y * Milli) \div Units(100) + Frac(1, 2),
                                                ctx.palette.hueRange),
                                 ctx.palette.saturation, Frac(1, 2) + freq \div 2),
                          3 * Milli + freq * 4)

\* ------------------------------------------------------------------------
\* Visualizer: the particle field in one render tick
\*
\* A field is [P, V, C, S, B]: particlePositions, particleVelocities,
\* particleColors, the size attribute and the flat position attribute.
\* ------------------------------------------------------------------------

Field(P, V, C, S, B) == [P |-> P, V |-> V, C |-> C, S |-> S, B |-> B]

\* the loop body update() selects with this.visualMode
ModeParticle(mode, i, p, ctx) ==
    CASE mode = "cosmic"  -> ParticleCosmic(i, p, ctx)
      [] mode = "pulse"   -> ParticlePulse(i, p, ctx)
      [] mode = "chaos"   -> ParticleChaos(i, p, ctx)
      [] mode = "minimal" -> ParticleMinimal(i, p, ctx)
      [] OTHER            -> ParticleDefault(i, p, ctx)

\* whether the loops of the mode reach particle i and store its position
Reaches(mode, i, count) ==
    /\ i < count
    /\ mode = "minimal" => i < BarCount * ParticlesPerBar(count)

\* no element of frequencyData read
NoBin == -1

\* the index of the frequencyData element the tick reads for particle i:
\* freqIndex of updateParticleColors when the mode rules are skipped, of the
\* bar of particle i in Minimal mode (NoBin for a particle no bar holds),
\* of the loop body of the mode otherwise
SampledBin(mode, frozen, i, count, len) ==
    IF frozen \/ mode # "minimal"
    THEN FreqIndex(i, count, len)
    ELSE IF Reaches(mode, i, count)
         THEN FreqIndex(i \div ParticlesPerBar(count), BarCount, len)
         ELSE NoBin

\* the mode rules are skipped and only the colors recomputed
SkipsModeRulesNever(frozen) == FALSE

\* the else branch of if (!this.isFrozen)
SkipsModeRules(frozen) == frozen

\* positions[index] = value: a store past the end of a typed array is ignored
Store(buf, index, value) ==
    IF index < Len(buf) THEN [buf EXCEPT ![index + 1] = value] ELSE buf

\* particle k (counted from 1) after the loop of the mode rule, or of
\* updateParticleColors when the mode rules are skipped
UpdatedParticle(f, k, mode, frozen, ctx) ==
    IF k > ctx.count
    THEN Particle(f.P[k], f.V[k], f.C[k], f.S[k])
    ELSE IF SkipsModeRules(frozen)
         THEN ParticleColors(k - 1, Particle(f.P[k], f.V[k], f.C[k], f.S[k]), ctx)
         ELSE ModeParticle(mode, k - 1, Particle(f.P[k], f.V[k], f.C[k], f.S[k]), ctx)

RECURSIVE UpdatedRange(_, _, _, _, _, _)
\* the particles lo .. hi after the loop (the range is halved, to keep the
\* evaluation shallow)
UpdatedRange(f, lo, hi, mode, frozen, ctx) ==
    IF lo > hi
    THEN <<>>
    ELSE IF lo = hi
         THEN <<UpdatedParticle(f, lo, mode, frozen, ctx)>>
         ELSE UpdatedRange(f, lo, (lo + hi) \div 2, mode, frozen, ctx)
                  \o UpdatedRange(f, (lo + hi) \div 2 + 1, hi, mode, frozen, ctx)

\* the particles from the k-th on after the loop
UpdatedParticles(f, k, mode, frozen, ctx) == UpdatedRange(f, k, Len(f.P), mode, frozen, ctx)

\* the field made of the particles `all`, the loop storing the positions
\* of the particles it reaches in the position attribute
FieldOf(all, f, mode, frozen, ctx) ==
    Field([k \in 1 .. Len(f.P) |-> all[k].pos],
          [k \in 1 .. Len(f.V) |-> all[k].vel],
          [k \in 1 .. Len(f.C) |-> all[k].color],
          [k \in 1 .. Len(f.S) |-> all[k].size],
          [x \in 1 .. Len(f.B) |->
              IF (~SkipsModeRules(frozen)) /\ Reaches(mode, (x - 1) \div 3, ctx.count)
              THEN all[(x - 1) \div 3 + 1].pos[((x - 1) % 3) + 1]
              ELSE f.B[x]])

\* the field after the loop of the mode rule, or of updateParticleColors
UpdatedField(f, mode, frozen, ctx) ==
    FieldOf(UpdatedParticles(f, 1, mode, frozen, ctx), f, mode, frozen, ctx)

\* this.symmetrySegments = 6
SymmetrySegments == 6

\* x * cos - z * sin, or x * sin + z * cos, of flat-array entries
Rotated(x, z, c, s) ==
    IF x = NaNCoord \/ z = NaNCoord THEN NaNCoord ELSE (x * c + z * s) \div Milli

\* the body of the inner loop of applyRadialSymmetry; the target index
\* (i + count / segments * segment) * 3 is computed exactly, and the stores
\* to an index that is not an integer leave the array alone
SymmetryStores(buf, count, segment, i) ==
    LET offset == 3 * count * segment
        target == 3 * i + offset \div SymmetrySegments
        angle  == (2 * PiMilli * segment) \div SymmetrySegments
        x      == buf[3 * i + 1]
        z      == buf[3 * i + 3]
        b1     == Store(buf, target, Rotated(x, z, Cos(angle), -Sin(angle)))
        b2     == Store(b1, target + 1, b1[3 * i + 2])
    IN  IF offset % SymmetrySegments # 0
        THEN buf
        ELSE Store(b2, target + 2, Rotated(x, z, Sin(angle), Cos(angle)))

RECURSIVE SymmetryLoop(_, _, _, _)
\* the two nested loops of applyRadialSymmetry, from (segment, i) on
SymmetryLoop(buf, count, segment, i) ==
    IF segment >= SymmetrySegments
    THEN buf
    ELSE IF i * SymmetrySegments >= count
         THEN SymmetryLoop(buf, count, segment + 1, 0)
         ELSE SymmetryLoop(SymmetryStores(buf, count, segment, i), count, segment, i + 1)

applyRadialSymmetry(buf, count) == SymmetryLoop(buf, count, 1, 0)

\* the loops running up to this.particleCount
ConnectedParticlesUncapped(count) == count

\* Math.min(this.particleCount, 200)
ConnectedParticles(count) == Min(count, 200)

\* the flat-array entries of particle i
BufferVec(buf, i) == Vec(buf[3 * i + 1], buf[3 * i + 2], buf[3 * i + 3])

\* the line of updateParticlesNeural between particles i and j, if any
Connection(buf, i, j, threshold) ==
    LET a == BufferVec(buf, i)
        b == BufferVec(buf, j)
        nan == \E k \in 1 .. 3 : a[k] = NaNCoord \/ b[k] = NaNCoord
        distance == IF nan THEN 0 ELSE Length(Add(a, Scaled(b, -1, 1)))
    IN  IF nan \/ distance >= threshold
        THEN <<>>
        ELSE <<[from |-> i, to |-> j,
                opacity |-> (Milli - (distance * Milli) \div threshold) \div 2]>>

RECURSIVE ConnectionsOf(_, _, _, _, _)
\* the inner loop of updateParticlesNeural for particle i, from j on
ConnectionsOf(buf, count, threshold, i, j) ==
    IF j >= ConnectedParticles(count)
    THEN <<>>
    ELSE Connection(buf, i, j, threshold)
             \o ConnectionsOf(buf, count, threshold, i, j + 5)

RECURSIVE ConnectionsFrom(_, _, _, _, _)
\* the two nested loops of updateParticlesNeural, from (i, j) on
ConnectionsFrom(buf, count, threshold, i, j) ==
    IF i >= ConnectedParticles(count)
    THEN <<>>
    ELSE ConnectionsOf(buf, count, threshold, i, j)
             \o ConnectionsFrom(buf, count, threshold, i + 5, i + 10)

\* this.particleConnections after updateParticlesNeural
NeuralConnections(buf, count, mid) ==
    ConnectionsFrom(buf, count, Units(60) + ToCenti(mid * 30), 0, 5)

\* ------------------------------------------------------------------------
\* Visualizer: the gesture command gate and the pulse
\*
\* A gate is the record of isFrozen, pulseEffect, pulseIntensity,
\* currentPalette, decayChains and the pulse history.
\* ------------------------------------------------------------------------

\* the pulse decaying by 0.95 instead of 0.85 per frame
DecayedSlowly(intensity) == (intensity * 95) \div 100

\* this.pulseIntensity *= 0.85
Decayed(intensity) == (intensity * 85) \div 100

\* this.pulseIntensity > 0.1
StillPulsing(intensity) == intensity * 10 > Micro

\* the decayPulse closure clearing pulseEffect and leaving the intensity
decayPulseKeepingIntensity(g) ==
    IF StillPulsing(Decayed(g.pulseIntensity))
    THEN [g EXCEPT !.pulseIntensity = Decayed(g.pulseIntensity),
                   !.decayChains = @ + 1]
    ELSE [g EXCEPT !.pulseEffect = FALSE, !.pulseIntensity = Decayed(g.pulseIntensity)]

\* one call of the decayPulse closure, which was waiting for this frame
\* unless triggerPulse calls it
decayPulse(g) ==
    IF StillPulsing(Decayed(g.pulseIntensity))
    THEN [g EXCEPT !.pulseIntensity = Decayed(g.pulseIntensity),
                   !.decayChains = @ + 1]
    ELSE [g EXCEPT !.pulseEffect = FALSE, !.pulseIntensity = 0]

RECURSIVE RunDecays(_, _)
\* the n decayPulse callbacks that were requested for this animation frame
RunDecays(g, n) ==
    IF n = 0
    THEN g
    ELSE RunDecays(decayPulse([g EXCEPT !.decayChains = @ - 1]), n - 1)

\* triggerPulse(intensity)
triggerPulse(intensity, g) ==
    decayPulse([g EXCEPT !.pulseEffect = TRUE,
                         !.pulseIntensity = intensity * (Micro \div Milli) + (3 * Micro) \div 2,
                         !.pulseArg = intensity,
                         !.pulseAge = 0,
                         !.pulsesStarted = @ + 1])

\* the gate opening on every pulse command
PulseGateLevel(pulse, effect) == pulse

\* commands.pulse && !this.pulseEffect
PulseGate(pulse, effect) == pulse /\ ~effect

\* the palette branch left out
processGestureCommandsNoPalette(cmds, beatIntensity, g) ==
    IF PulseGate(cmds.pulse, g.pulseEffect)
    THEN triggerPulse(beatIntensity, [g EXCEPT !.isFrozen = cmds.freeze])
    ELSE [g EXCEPT !.isFrozen = cmds.freeze]

\* processGestureCommands(commands, beat, beatIntensity)
processGestureCommands(cmds, beatIntensity, g) ==
    LET frozen == [g EXCEPT !.isFrozen = cmds.freeze]
        pulsed == IF PulseGate(cmds.pulse, frozen.pulseEffect)
                  THEN triggerPulse(beatIntensity, frozen)
                  ELSE frozen
    IN  [pulsed EXCEPT !.currentPalette = cmds.colorPalette]

\* ------------------------------------------------------------------------
\* Visualizer: the camera
\*
\* camera is [angle, radius, shakeIntensity, shake, position]: cameraAngle,
\* cameraRadius, cameraShakeIntensity, cameraShake and camera.position.
\* ------------------------------------------------------------------------

\* this.cameraHeight = 50
CameraHeight == 50

\* the shake intensity set on a beat and never decayed
updateCameraShakeNoDecay(cam, bass, beat, rnd) ==
    LET shaken == IF beat THEN (bass * 10) \div 1 ELSE cam.shakeIntensity
    IN  [cam EXCEPT !.shakeIntensity = shaken,
                    !.shake = IF shaken * 10 > Milli
                              THEN <<(((rnd[1] * shaken) \div Milli) * Centi) \div Milli,
                                     (((rnd[2] * shaken) \div Milli) * Centi) \div Milli,
                                     (((rnd[3] * shaken) \div Milli) * Centi) \div Milli>>
                              ELSE <<0, 0, 0>>]

\* updateCameraShake(bands.bass, beat)
updateCameraShake(cam, bass, beat, rnd) ==
    LET hit    == IF beat THEN BandTimes(bass, 10, 1) ELSE cam.shakeIntensity
        shaken == (hit * 9) \div 10
    IN  [cam EXCEPT !.shakeIntensity = shaken,
                    !.shake = IF shaken * 10 > Milli
                              THEN Vec(ToCenti(MulMilli(rnd[1], shaken)),
                                       ToCenti(MulMilli(rnd[2], shaken)),
                                       ToCenti(MulMilli(rnd[3], shaken)))
                              ELSE ZeroVec]

\* updateCamera(average)
updateCamera(cam, average, bass) ==
    LET angle  == cam.angle + Frac(2, 1000) + average \div 1000
        radius == IF cam.radius = NaNCoord THEN NaNCoord ELSE cam.radius + ToCenti(average * 50)
        height == Units(CameraHeight) + ToCenti(bass * 30)
    IN  [cam EXCEPT !.angle = angle,
                    !.position = IF radius = NaNCoord
                                 THEN Vec(NaNCoord, height + cam.shake[2], NaNCoord)
                                 ELSE Vec((Cos(angle) * radius) \div Milli + cam.shake[1],
                                          height + cam.shake[2],
                                          (Sin(angle) * radius) \div Milli + cam.shake[3])]

\* ------------------------------------------------------------------------
\* PresetManager
\*
\* transition is Null, or [start, initialRadius, target] while
\* isTransitioning is true.
\* ------------------------------------------------------------------------

\* the preset names, and for each its visualMode and cameraRadius
PresetNames == {"cosmic", "neural", "pulse", "chaos", "minimal"}

PresetRadius(name) ==
    CASE name = "cosmic"  -> Units(150)
      [] name = "neural"  -> Units(180)
      [] name = "pulse"   -> Units(140)
      [] name = "chaos"   -> Units(160)
      [] name = "minimal" -> Units(200)
      [] OTHER            -> NaNCoord

\* names every object inherits from Object.prototype: this.presets[name] is
\* a function for them, and every setting read from it is undefined
InheritedNames == {"constructor"}

\* this.presets[presetName] is truthy
PresetFound(name) == name \in PresetNames \cup InheritedNames

\* preset.visualMode
PresetMode(name) == IF name \in PresetNames THEN name ELSE "undefined"

\* preset.trailEffect and preset.trailOpacity (NaN where undefined)
PresetTrail(name) ==
    CASE name \in {"cosmic"}            -> [effect |-> TRUE, opacity |-> Frac(15, 100)]
      [] name \in {"neural", "minimal"} -> [effect |-> FALSE, opacity |-> Milli]
      [] name = "pulse"                 -> [effect |-> TRUE, opacity |-> Frac(2, 10)]
      [] name = "chaos"                 -> [effect |-> TRUE, opacity |-> Frac(1, 10)]
      [] OTHER                          -> [effect |-> FALSE, opacity |-> NaN]

\* this.transitionDuration = 1000 (ms)
TransitionDuration == 1000

\* Math.min(elapsed / this.transitionDuration, 1)
Progress(elapsed) == Min((elapsed * Milli) \div TransitionDuration, Milli)

\* the ease-in-out function of smoothTransition
Eased(progress) ==
    IF progress * 2 < Milli
    THEN (2 * progress * progress) \div Milli
    ELSE Milli - ((2 * Milli - 2 * progress) * (2 * Milli - 2 * progress)) \div (2 * Milli)

\* initialRadius + (targetRadius - initialRadius) * eased
TransitionRadius(tr, t) ==
    IF PresetRadius(tr.target) = NaNCoord \/ tr.initialRadius = NaNCoord
    THEN NaNCoord
    ELSE tr.initialRadius
             + ((PresetRadius(tr.target) - tr.initialRadius)
                    * Eased(Progress(t - tr.start))) \div Milli

\* ------------------------------------------------------------------------
\* Visualizer: construction, and update() in one animation frame
\* ------------------------------------------------------------------------

\* the points createParticleSystem may draw for particle i: radius 100 on
\* an axis, or radius 75 or 125 off the axes
InitialPosition(i, draw) ==
    LET points == <<Vec(Units(100), 0, 0), Vec(0, Units(-60), Units(45)),
                    Vec(Units(-75), Units(100), 0), Vec(Units(35), Units(-120), 0),
                    Vec(0, 0, Units(-100))>>
    IN  points[((i + draw) % Len(points)) + 1]

\* color.setHSL(0.5 + Math.random() * 0.3, 1.0, 0.5)
InitialColor(i, draw) == setHSL(Frac(1, 2) + ((i + draw) % 3) * Frac(1, 10), Milli, Frac(1, 2))

\* Math.random() * 2 + 1
InitialSize(i, draw) == Milli + ((i + draw) % 4) * Frac(1, 2)

\* the values Math.random() - 0.5 takes on the three axes in one tick
RandomDraws == {Vec(-(Milli \div 2), 0, Frac(49, 100)), Vec(Frac(1, 4), -(Milli \div 4), 0)}

\* the points createParticleSystem draws for count particles
InitialPositions(count, draw) == [k \in 1 .. count |-> InitialPosition(k - 1, draw)]

\* the Visualizer after its constructor, createParticleSystem having made
\* count particles at the points P
Constructed(count, P, draw, orders) ==
    /\ particleCount = count
    /\ particlePositions = P
    /\ particleColors = [k \in 1 .. count |-> InitialColor(k - 1, draw)]
    /\ sizes = [k \in 1 .. count |-> InitialSize(k - 1, draw)]
    /\ positions = [x \in 1 .. 3 * count |-> P[(x - 1) \div 3 + 1][((x - 1) % 3) + 1]]
    /\ particleVelocities = [k \in 1 .. count |-> ZeroVec]
    /\ time = 0
    /\ spiralAngle = 0
    /\ bassIntensity = 0
    /\ midIntensity = 0
    /\ trebleIntensity = 0
    /\ spikeIntensity = 0
    /\ camera = [angle |-> 0, radius |-> Units(150), shakeIntensity |-> 0,
                 shake |-> ZeroVec, position |-> Vec(0, 0, Units(150))]
    /\ isFrozen = FALSE
    /\ pulseEffect = FALSE
    /\ pulseIntensity = 0
    /\ currentPalette = 0
    /\ radialSymmetry = FALSE
    /\ trail = [effect |-> TRUE, opacity |-> Frac(15, 100)]
    /\ visualMode = "cosmic"
    /\ particleConnections = <<>>
    /\ isRunning = FALSE
    /\ decayChains = 0
    /\ rafOrder \in orders
    /\ frames = 0
    /\ pulseArg = 0
    /\ pulseAge = 0
    /\ pulsesStarted = 0
    /\ lastTick = [ran |-> FALSE, frozen |-> FALSE, activeBefore |-> FALSE, pulseSize |-> 0,
                   bins |-> <<>>, radii |-> <<>>]

\* the Visualizer after its constructor
InitVisualizer(draws, orders) ==
    \E draw \in draws :
        Constructed(ParticleCount, InitialPositions(ParticleCount, draw), draw, orders)

\* the fields the gesture gate reads and writes
Gate ==
    [isFrozen |-> isFrozen, pulseEffect |-> pulseEffect, pulseIntensity |-> pulseIntensity,
     currentPalette |-> currentPalette, decayChains |-> decayChains,
     pulseArg |-> pulseArg, pulseAge |-> pulseAge, pulsesStarted |-> pulsesStarted]

SetGate(g) ==
    /\ isFrozen' = g.isFrozen
    /\ pulseEffect' = g.pulseEffect
    /\ pulseIntensity' = g.pulseIntensity
    /\ currentPalette' = g.currentPalette
    /\ decayChains' = g.decayChains
    /\ pulseArg' = g.pulseArg
    /\ pulseAge' = g.pulseAge
    /\ pulsesStarted' = g.pulsesStarted

\* the gate after processGestureCommands(gestureCommands, beat, beatIntensity)
Gated(audio, cmds, before) == processGestureCommands(cmds, audio.beatIntensity, before)

\* the camera after updateCameraShake and updateCamera
CameraAfterTick(audio, cam, rnd) ==
    updateCamera(updateCameraShake(cam, audio.bands.bass, audio.beat, rnd),
                 audio.average, BandTimes(audio.bands.bass, 2, 1))

\* what the mode rules of one render tick read: the audio features, the
\* intensities, time and spiral angle update() has just set, and the gate
\* g left by processGestureCommands
TickContext(audio, array, g, rnd) ==
    [data |-> FrequencyArray(audio, array), average |-> audio.average,
     beat |-> audio.beat, beatIntensity |-> audio.beatIntensity,
     bassIntensity |-> BandTimes(audio.bands.bass, 2, 1),
     midIntensity |-> BandTimes(audio.bands.mid, 3, 2),
     time |-> time + Frac(1, 100),
     spiralAngle |-> spiralAngle + Frac(1, 100) + BandTimes(audio.bands.bass, 1, 20),
     pulseEffect |-> g.pulseEffect, pulseIntensity |-> g.pulseIntensity,
     palette |-> Palette(g.currentPalette), count |-> particleCount,
     rnd |-> rnd]

\* the field of the second run after the same render tick, its own
\* Math.random() values being rnd
TwinAfter(audio, array, g, rnd) ==
    IF twin = Null
    THEN Null
    ELSE [UpdatedField(twin, visualMode, g.isFrozen, TickContext(audio, array, g, rnd))
             EXCEPT !.B = IF radialSymmetry THEN applyRadialSymmetry(@, particleCount) ELSE @]

\* update(audioData, gestureCommands) past its guard, the camera apart;
\* `before` is the gate the tick starts with
update(audio, array, cmds, before, rnd) ==
    LET g    == Gated(audio, cmds, before)
        bass == BandTimes(audio.bands.bass, 2, 1)
        mid  == BandTimes(audio.bands.mid, 3, 2)
        ctx  == TickContext(audio, array, g, rnd)
    IN  \E f \in {UpdatedField(Field(particlePositions, particleVelocities, particleColors,
                                   sizes, positions),
                             visualMode, g.isFrozen, ctx)} :
        /\ time' = ctx.time
        /\ bassIntensity' = bass
        /\ midIntensity' = mid
        /\ trebleIntensity' = BandTimes(audio.bands.treble, 6, 5)
        /\ spikeIntensity' = BandTimes(audio.bands.treble, 3, 1)
        /\ spiralAngle' = ctx.spiralAngle
        /\ particlePositions' = f.P
        /\ particleVelocities' = f.V
        /\ particleColors' = f.C
        /\ sizes' = f.S
        /\ particleConnections' =
               IF visualMode = "neural" /\ ~SkipsModeRules(g.isFrozen)
               THEN NeuralConnections(f.B, particleCount, mid)
               ELSE particleConnections
        /\ positions' = IF radialSymmetry THEN applyRadialSymmetry(f.B, particleCount) ELSE f.B
        /\ lastTick' = [ran |-> TRUE, frozen |-> g.isFrozen,
                        activeBefore |-> before.pulseEffect,
                        pulseSize |-> PulseSize(ctx),
                        bins |-> [k \in 1 .. ctx.count |->
                                     SampledBin(visualMode, g.isFrozen, k - 1, ctx.count,
                                                ArrayLength(ctx.data))],
                        radii |-> IF visualMode = "cosmic" /\ ~SkipsModeRules(g.isFrozen)
                                  THEN [k \in 1 .. ctx.count |-> TargetRadius(k - 1, ctx)]
                                  ELSE <<>>]
        /\ UNCHANGED particleCount

\* the animate closure ending the transition without applying the preset
TransitionStepWithoutApply(cam, t) ==
    IF transition = Null
    THEN /\ camera' = cam
         /\ UNCHANGED <<transition, visualMode, radialSymmetry, trail>>
    ELSE /\ camera' = [cam EXCEPT !.radius = TransitionRadius(transition, t)]
         /\ transition' = IF Progress(t - transition.start) < Milli THEN transition ELSE Null
         /\ UNCHANGED <<visualMode, radialSymmetry, trail>>

\* the animate closure of smoothTransition, called in the frame at clock
\* reading t after the render tick left the camera as cam
TransitionStep(cam, t) ==
    IF transition = Null
    THEN /\ camera' = cam
         /\ UNCHANGED <<transition, visualMode, radialSymmetry, trail>>
    ELSE IF Progress(t - transition.start) < Milli
         THEN /\ camera' = [cam EXCEPT !.radius = TransitionRadius(transition, t)]
              /\ UNCHANGED <<transition, visualMode, radialSymmetry, trail>>
         ELSE /\ camera' = [cam EXCEPT !.radius = PresetRadius(transition.target)]
              /\ visualMode' = PresetMode(transition.target)
              /\ radialSymmetry' = FALSE
              /\ trail' = PresetTrail(transition.target)
              /\ transition' = Null

\* the guard of update() never returning early
TickStartsAlways == TRUE

\* if (!audioData || !this.isRunning) return; the render loop always hands
\* update() the object getFrequencyData() returned
TickStarts == isRunning

\* one animation frame, dt milliseconds after the previous reading of the
\* clock: the decayPulse callbacks requested for it, the render tick
\* (feature extraction, then update with the gesture commands) unless the
\* visualizer is stopped, and the preset transition
Frame(dt, spectrum, rnd, maxFrames) ==
    /\ frames < maxFrames
    /\ \A d \in pulseTimers \cup perfTimers : d > now
    /\ now' = now + dt
    /\ frames' = frames + 1
    /\ LET aged   == [Gate EXCEPT !.pulseAge = IF pulsesStarted > 0 THEN @ + 1 ELSE @]
           before == IF rafOrder = "decayFirst" THEN RunDecays(aged, decayChains) ELSE aged
           late(g) == IF rafOrder = "tickFirst" THEN RunDecays(g, decayChains) ELSE g
       IN  IF TickStarts
           THEN \E audio \in {FrequencyData(now + dt, spectrum)} :
                /\ getFrequencyData(now + dt, spectrum)
                /\ update(audio, FilledArray(spectrum), commands, before, rnd)
                /\ SetGate(late(Gated(audio, commands, before)))
                /\ TransitionStep(CameraAfterTick(audio, camera, rnd), now + dt)
                /\ \E rnd2 \in (IF twin = Null THEN {rnd} ELSE RandomDraws) :
                       twin' = TwinAfter(audio, FilledArray(spectrum),
                                         Gated(audio, commands, before), rnd2)
           ELSE /\ SetGate(late(before))
                /\ TransitionStep(camera, now + dt)
                /\ lastTick' = [lastTick EXCEPT !.ran = FALSE]
                /\ UNCHANGED twin
                /\ UNCHANGED <<dataArray, lastBeatTime, currentBeat, currentAverage,
                               beatDetected, lastResult, beats, calls, fieldVars, time,
                               spiralAngle, bassIntensity, midIntensity, trebleIntensity,
                               spikeIntensity, particleConnections>>
    /\ UNCHANGED <<analyser, sampleRate, constInput, preludeLeft, isRunning, rafOrder,
                   currentPreset, presetCall, events, gestureVars, perfVars, recorderVars, micVars, demoVars,
                   display>>

\* ------------------------------------------------------------------------
\* The handlers between animation frames
\* ------------------------------------------------------------------------

\* a handler call counted against the bound max; a second run receives
\* the same call
Event(max) ==
    /\ events < max
    /\ events' = events + 1
    /\ UNCHANGED twin

\* visualizer.start()
VisualizerStart ==
    /\ isRunning' = TRUE
    /\ UNCHANGED <<audioVars, fieldVars, motionVars, gateVars, radialSymmetry, trail, visualMode,
                   rafOrder, frames, lastTick, gestureVars, perfVars, recorderVars, micVars, demoVars, display, presetVars>>

\* visualizer.stop()
VisualizerStop ==
    /\ isRunning' = FALSE
    /\ UNCHANGED <<audioVars, fieldVars, motionVars, gateVars, radialSymmetry, trail, visualMode,
                   rafOrder, frames, lastTick, gestureVars, perfVars, recorderVars, micVars, demoVars, display, presetVars>>

\* visualizer.setVisualMode(mode)
setVisualMode(mode) ==
    /\ visualMode' = mode
    /\ UNCHANGED <<audioVars, fieldVars, motionVars, gateVars, radialSymmetry, trail, isRunning,
                   rafOrder, frames, lastTick, gestureVars, perfVars, recorderVars, micVars, demoVars, display, presetVars>>

\* visualizer.toggleRadialSymmetry()
toggleRadialSymmetry ==
    /\ radialSymmetry' = ~radialSymmetry
    /\ UNCHANGED <<audioVars, fieldVars, motionVars, gateVars, trail, visualMode, isRunning,
                   rafOrder, frames, lastTick, gestureVars, perfVars, recorderVars, micVars, display, presetVars>>

\* the 'palette' action of the demo: the palette of the visualizer cycled
\* without a gesture
DemoPalette ==
    /\ currentPalette' = (currentPalette + 1) % 3
    /\ UNCHANGED <<audioVars, fieldVars, motionVars, isFrozen, pulseEffect, pulseIntensity,
                   decayChains, pulseArg, pulseAge, pulsesStarted, radialSymmetry, trail,
                   visualMode,
                   isRunning, rafOrder, frames, lastTick, gestureVars, perfVars, recorderVars, micVars, display, presetVars>>

\* the intensity simulateGesture('pulse') passes, 1.5, in units of 1/Milli
DemoPulseIntensity == 1500

\* the 'pulse' action of the demo: triggerPulse(1.5) called on the
\* visualizer, whatever pulseEffect is
DemoPulse ==
    /\ SetGate(triggerPulse(DemoPulseIntensity, Gate))
    /\ UNCHANGED <<audioVars, fieldVars, motionVars, radialSymmetry, trail, visualMode,
                   isRunning, rafOrder, frames, lastTick, gestureVars, perfVars, recorderVars, micVars,
                   display, presetVars>>

\* visualizer.toggleTrailEffect()
toggleTrailEffect ==
    /\ trail' = [trail EXCEPT !.effect = ~trail.effect]
    /\ UNCHANGED <<audioVars, fieldVars, motionVars, gateVars, radialSymmetry, visualMode,
                   isRunning, rafOrder, frames, lastTick, gestureVars, perfVars,
                   recorderVars, micVars, display, presetVars>>

\* presetManager.applyPreset(name, animate): dropped for a name the lookup
\* does not find and during a transition; smoothTransition calls the
\* animate closure once, at progress 0. trailBefore is the trail setting
\* the call finds.
applyPresetAfter(name, animate, trailBefore) ==
    /\ presetCall' = [count |-> presetCall.count + 1, name |-> name,
                      started |-> /\ PresetFound(name)
                                  /\ transition = Null
                                  /\ animate
                                  /\ currentPreset # name]
    /\ IF ~PresetFound(name) \/ transition # Null
       THEN /\ trail' = trailBefore
            /\ UNCHANGED <<currentPreset, transition, visualMode, radialSymmetry, camera>>
       ELSE /\ currentPreset' = name
            /\ IF animate /\ currentPreset # name
               THEN /\ transition' = [start |-> now, initialRadius |-> camera.radius,
                                      target |-> name]
                    /\ camera' = [camera EXCEPT !.radius = TransitionRadius(transition', now)]
                    /\ trail' = trailBefore
                    /\ UNCHANGED <<visualMode, radialSymmetry>>
               ELSE /\ visualMode' = PresetMode(name)
                    /\ radialSymmetry' = FALSE
                    /\ trail' = PresetTrail(name)
                    /\ camera' = [camera EXCEPT !.radius = PresetRadius(name)]
                    /\ UNCHANGED transition
    /\ UNCHANGED <<audioVars, fieldVars, time, spiralAngle, bassIntensity, midIntensity,
                   trebleIntensity, spikeIntensity, particleConnections, gateVars,
                   isRunning, rafOrder, frames, lastTick, gestureVars, perfVars,
                   recorderVars, micVars, display>>

applyPreset(name, animate) == applyPresetAfter(name, animate, trail)

\* the gestures onGestureChange acts on
Gestures == {"fist", "palm", "peace"}

\* this.gestureHistorySize
GestureHistorySize == 5

\* gestureHistory.push(gesture), and shift() past gestureHistorySize
Pushed(history, gesture) ==
    LET longer == Append(history, gesture)
    IN  IF Len(longer) > GestureHistorySize THEN Tail(longer) ELSE longer

\* gestureCounts[g]
GestureCount(history, g) == Cardinality({k \in 1 .. Len(history) : history[k] = g})

\* Object.keys(gestureCounts): the gestures of the history in the order of
\* their first entries
RECURSIVE GestureKeys(_, _)
GestureKeys(history, k) ==
    IF k > Len(history) THEN <<>>
    ELSE IF \E earlier \in 1 .. k - 1 : history[earlier] = history[k]
         THEN GestureKeys(history, k + 1)
         ELSE <<history[k]>> \o GestureKeys(history, k + 1)

\* keys.reduce((a, b) => gestureCounts[a] > gestureCounts[b] ? a : b) from
\* the key k on, a being the value carried so far
RECURSIVE Reduced(_, _, _, _)
Reduced(history, keys, a, k) ==
    IF k > Len(keys) THEN a
    ELSE Reduced(history, keys,
                 IF GestureCount(history, a) > GestureCount(history, keys[k])
                 THEN a
                 ELSE keys[k],
                 k + 1)

\* mostCommon of a history that is not empty
MostCommon(history) ==
    LET keys == GestureKeys(history, 1)
    IN  Reduced(history, keys, keys[1], 2)

\* the three assignments of updateGesture for a changed gesture, with
\* no start() has turned the controller on yet
NoSession == [started |-> FALSE, restarted |-> FALSE, seen |-> {}, fired |-> {}]

\* the session that begins when start() turns the controller on
NewSession(old) == [started |-> TRUE, restarted |-> old.started, seen |-> {}, fired |-> {}]

\* the session after updateGesture was handed `result` and called
\* onGestureChange with the gestures of `changes`
Noted(old, result, changes) ==
    [old EXCEPT !.seen = @ \cup {result}, !.fired = @ \cup changes]

\* onGestureChange(gesture)
GestureFires(gesture) ==
    /\ currentGesture' = gesture
    /\ commands' =
           CASE gesture = "fist"  -> [commands EXCEPT !.freeze = ~commands.freeze]
             [] gesture = "palm"  -> [commands EXCEPT !.pulse = TRUE]
             [] gesture = "peace" -> [commands EXCEPT !.colorPalette = (@ + 1) % 3]
    /\ pulseTimers' = IF gesture = "palm"
                      THEN pulseTimers \cup {now + PulseHold}
                      ELSE pulseTimers
    /\ palmGestures' = IF gesture = "palm" THEN palmGestures + 1 ELSE palmGestures
    /\ fired' = fired \cup {gesture}

\* the hand showing `gesture`, another one than the current, until the
\* history holds nothing else: updateGesture finds it the most common one
\* and calls onGestureChange(gesture)
GestureChange(gesture) ==
    /\ gesture # currentGesture
    /\ GestureFires(gesture)
    /\ gestureHistory' = [k \in 1 .. GestureHistorySize |-> gesture]
    /\ session' = Noted(session, gesture, {gesture})
    /\ UNCHANGED <<detections, loopVars, audioVars, visVars, perfVars, presetVars,
                   recorderVars, micVars, demoVars, display>>

\* the results recognizeGesture returns, and 'none' for no hand
Results == {"fist", "palm", "peace", "unknown", "none"}

\* updateGesture(gesture), called by the detection callback with its result
updateGesture(gesture) ==
    LET history    == Pushed(gestureHistory, gesture)
        mostCommon == MostCommon(history)
    IN  /\ gestureHistory' = history
        /\ detections' = Append(detections, gesture)
        /\ IF mostCommon # currentGesture /\ mostCommon # "unknown" /\ mostCommon # "none"
           THEN /\ GestureFires(mostCommon)
                /\ session' = Noted(session, gesture, {mostCommon})
           ELSE /\ session' = Noted(session, gesture, {})
                /\ UNCHANGED <<currentGesture, commands, pulseTimers, palmGestures, fired>>
        /\ UNCHANGED <<audioVars, visVars, perfVars, presetVars, recorderVars, micVars, demoVars, display>>

\* the previews shown or hidden by start() and stop()
Previews(shown, value) ==
    [shown EXCEPT !["#webcam-preview"] = value, !["#gesture-overlay"] = value]

\* gestureController.start(): `ok` is whether getUserMedia granted the
\* webcam; startDetectionLoop sets the interval
GestureStart(ok) ==
    /\ stopped' = FALSE
    /\ IF gestureRunning \/ ~ok
       THEN UNCHANGED <<gestureRunning, display, liveStreams, liveIntervals, session>>
       ELSE /\ gestureRunning' = TRUE
            /\ session' = NewSession(session)
            /\ liveStreams' = liveStreams + 1
            /\ liveIntervals' = liveIntervals + 1
            /\ display' = Previews(display, "block")
    /\ UNCHANGED <<commands, currentGesture, pulseTimers, palmGestures, gestureHistory,
                   detections, fired, inFlight, startsAwaiting, audioVars, visVars, perfVars,
                   presetVars, recorderVars, micVars, demoVars>>

\* stop(): this.commands.freeze = false; this.commands.pulse = false
StoppedCommands(cmds) == [cmds EXCEPT !.freeze = FALSE, !.pulse = FALSE]

\* gestureController.stop(): the tracks of video.srcObject are stopped and
\* the interval of this.detectionInterval is cleared, each holding what the
\* last start() stored; neither a callback that is awaiting estimateHands
\* nor a pulse timeout is cancelled
GestureStop ==
    /\ stopped' = TRUE
    /\ IF ~gestureRunning
       THEN UNCHANGED <<gestureRunning, display, currentGesture, commands, liveStreams,
                        liveIntervals>>
       ELSE /\ gestureRunning' = FALSE
            /\ liveStreams' = liveStreams - 1
            /\ liveIntervals' = liveIntervals - 1
            /\ display' = Previews(display, "none")
            /\ currentGesture' = "none"
            /\ commands' = StoppedCommands(commands)
    /\ UNCHANGED <<pulseTimers, palmGestures, gestureHistory, detections, fired, session, inFlight,
                   startsAwaiting, audioVars, visVars, perfVars, presetVars, recorderVars, micVars, demoVars>>

\* detection callbacks that may await estimateHands at once
MaxInFlight == 1

\* the interval callback detectGesture up to its await: it returns at once
\* when the controller is not running, which it is while the interval is set
DetectBegin ==
    /\ liveIntervals > 0
    /\ gestureRunning
    /\ inFlight < MaxInFlight
    /\ inFlight' = inFlight + 1
    /\ UNCHANGED <<commands, currentGesture, pulseTimers, palmGestures, gestureHistory,
                   detections, fired, session, gestureRunning, stopped, startsAwaiting, liveStreams,
                   liveIntervals, audioVars, visVars, perfVars, presetVars, recorderVars, micVars, demoVars,
                   display>>

\* detectGesture after its await: estimateHands has resolved and the result
\* is handed to updateGesture, isRunning not being looked at again
DetectEnd(gesture) ==
    /\ inFlight > 0
    /\ inFlight' = inFlight - 1
    /\ updateGesture(gesture)
    /\ UNCHANGED <<gestureRunning, stopped, startsAwaiting, liveStreams, liveIntervals>>

\* start() calls that may await getUserMedia at once
MaxAwaiting == 2

\* gestureController.start() up to its await, the model being loaded: it
\* returns at once when the controller is running, and asks for the webcam
\* otherwise
GestureStartCall ==
    /\ startsAwaiting < MaxAwaiting
    /\ stopped' = FALSE
    /\ startsAwaiting' = IF gestureRunning THEN startsAwaiting ELSE startsAwaiting + 1
    /\ UNCHANGED <<commands, currentGesture, pulseTimers, palmGestures, gestureHistory,
                   detections, fired, session, gestureRunning, inFlight, liveStreams, liveIntervals,
                   audioVars, visVars, perfVars, presetVars, recorderVars, micVars, demoVars, display>>

\* start() after its await: getUserMedia has resolved with a stream (ok) or
\* was rejected; the stream is stored in video.srcObject and the interval of
\* startDetectionLoop in this.detectionInterval, isRunning not being looked
\* at again
GestureStartResolve(ok) ==
    /\ startsAwaiting > 0
    /\ startsAwaiting' = startsAwaiting - 1
    /\ IF ok
       THEN /\ gestureRunning' = TRUE
            /\ session' = IF gestureRunning THEN session ELSE NewSession(session)
            /\ liveStreams' = liveStreams + 1
            /\ liveIntervals' = liveIntervals + 1
            /\ display' = Previews(display, "block")
       ELSE UNCHANGED <<gestureRunning, liveStreams, liveIntervals, display, session>>
    /\ UNCHANGED <<commands, currentGesture, pulseTimers, palmGestures, gestureHistory,
                   detections, fired, inFlight, stopped, audioVars, visVars, perfVars,
                   presetVars, recorderVars, micVars, demoVars>>

\* the callback of the setTimeout of onGestureChange, due at `deadline`
PulseTimerFire(deadline) ==
    /\ deadline \in pulseTimers
    /\ deadline <= now
    /\ commands' = [commands EXCEPT !.pulse = FALSE]
    /\ pulseTimers' = pulseTimers \ {deadline}
    /\ UNCHANGED <<currentGesture, palmGestures, gestureHistory, detections, fired, session,
                   loopVars, audioVars, visVars, perfVars, recorderVars, micVars, demoVars, display, presetVars,
                   events, twin>>

\* the count stored as half the particle count
StoredParticleCountHalved(count) == count \div 2

\* this.originalParticleCount = visualizer.particleCount
StoredParticleCount(count) == count

\* this.uiSelectors, each matching one element of the page
uiSelectors == <<".header", ".control-panel", ".preset-panel", "#webcam-preview",
                 "#gesture-overlay", "#recording-indicator">>

Elements == {uiSelectors[k] : k \in 1 .. Len(uiSelectors)}

\* the display restored as 'block' whatever it was
RestoredDisplayBlock(original) == "block"

\* showUI: element.style.display = originalDisplay
RestoredDisplay(original) == original

\* hideUI: the entries pushed for the selectors k .. 6, in order
RECURSIVE HiddenFrom(_, _)
HiddenFrom(shown, k) ==
    IF k > Len(uiSelectors) THEN <<>>
    ELSE (IF shown[uiSelectors[k]] # "none"
          THEN <<[element |-> uiSelectors[k],
                  originalDisplay |-> IF shown[uiSelectors[k]] = ""
                                      THEN ""
                                      ELSE shown[uiSelectors[k]]]>>
          ELSE <<>>)
         \o HiddenFrom(shown, k + 1)

\* hideUI applied to the displays `shown`
hideUI(shown) == [el \in Elements |-> IF shown[el] # "none" THEN "none" ELSE shown[el]]

\* showUI applied to the displays `shown`: the entries of `hidden` from k on
RECURSIVE showUI(_, _, _)
showUI(shown, hidden, k) ==
    IF k > Len(hidden) THEN shown
    ELSE showUI([shown EXCEPT ![hidden[k].element] =
                                   RestoredDisplay(hidden[k].originalDisplay)],
                hidden, k + 1)

\* performanceMode.enter(visualizer); nothing happens while active
PerformanceEnter ==
    /\ IF perfActive
       THEN UNCHANGED <<perfActive, originalParticleCount, perfTimers, hiddenElements,
                        displayBefore, display>>
       ELSE /\ perfActive' = TRUE
            /\ hiddenElements' = HiddenFrom(display, 1)
            /\ display' = hideUI(display)
            /\ displayBefore' = display
            /\ originalParticleCount' = StoredParticleCount(particleCount)
            /\ perfTimers' = perfTimers \cup {now + PerfTestDelay}
    /\ UNCHANGED <<reducedParticles, audioVars, visVars, gestureVars, presetVars,
                   recorderVars, micVars, demoVars>>

\* the callback of the setTimeout of applyOptimizations, due at `deadline`
PerformanceTimerFire(deadline) ==
    /\ deadline \in perfTimers
    /\ deadline <= now
    /\ perfTimers' = perfTimers \ {deadline}
    /\ reducedParticles' =
           IF (now - (deadline - PerfTestDelay)) * 100 > 1667 THEN TRUE ELSE reducedParticles
    /\ UNCHANGED <<perfActive, originalParticleCount, hiddenElements, displayBefore,
                   audioVars, visVars, gestureVars, presetVars, recorderVars, micVars, demoVars, display,
                   events, twin>>

\* performanceMode.exit(visualizer), or exit() from the Escape key handler;
\* nothing happens while inactive
PerformanceExit(withVisualizer) ==
    /\ IF ~perfActive
       THEN UNCHANGED <<perfActive, hiddenElements, display, particleCount,
                        reducedParticles>>
       ELSE /\ perfActive' = FALSE
            /\ display' = showUI(display, hiddenElements, 1)
            /\ hiddenElements' = <<>>
            /\ IF withVisualizer /\ reducedParticles
               THEN /\ particleCount' = originalParticleCount
                    /\ reducedParticles' = FALSE
               ELSE UNCHANGED <<particleCount, reducedParticles>>
    /\ UNCHANGED <<originalParticleCount, perfTimers, displayBefore, audioVars,
                   particlePositions, particleVelocities, particleColors, positions, sizes,
                   motionVars, gateVars, radialSymmetry, trail, visualMode, isRunning, rafOrder,
                   frames, lastTick, gestureVars, presetVars, recorderVars, micVars, demoVars>>

\* this.maxDuration: 3 minutes in milliseconds
MaxDuration == 180000

\* no recording has ended yet
NoStop == [by |-> "none", ran |-> 0]

\* recorder.startRecording(): refused while recording; `ok` is whether the
\* streams and the MediaRecorder could be set up (the catch block otherwise).
\* The auto-stop timeout is set and its handle dropped.
startRecording(ok) ==
    /\ IF isRecording \/ ~ok
       THEN UNCHANGED <<isRecording, recordingStartTime, autoStopTimers, display,
                        mediaRecorders, recordedChunks, produced>>
       ELSE /\ isRecording' = TRUE
            /\ mediaRecorders' = Append(mediaRecorders, "recording")
            /\ produced' = Append(produced, 0)
            /\ recordedChunks' = <<>>
            /\ recordingStartTime' = now
            /\ display' = [display EXCEPT !["#recording-indicator"] = "flex"]
            /\ autoStopTimers' = autoStopTimers \cup {now + MaxDuration}
    /\ UNCHANGED <<lastStop, downloads, audioVars, micVars, demoVars, visVars, gestureVars, perfVars,
                   presetVars>>

\* this.mediaRecorder.stop() unless its state is 'inactive': this.mediaRecorder
\* is the recorder of the last recording, and the browser queues its final
\* dataavailable and stop events
Stopped(recorders) ==
    IF recorders # <<>> /\ recorders[Len(recorders)] # "inactive"
    THEN [recorders EXCEPT ![Len(recorders)] = "stopping"]
    ELSE recorders

\* ondataavailable: if (event.data.size > 0) this.recordedChunks.push(event.data)
Collected(chunks, id, nonEmpty) == IF nonEmpty THEN Append(chunks, id) ELSE chunks

\* the dataavailable event of the 100 ms timeslice of the recording `id`
DataAvailable(id, nonEmpty) ==
    /\ id \in 1 .. Len(mediaRecorders)
    /\ mediaRecorders[id] = "recording"
    /\ recordedChunks' = Collected(recordedChunks, id, nonEmpty)
    /\ produced' = [produced EXCEPT ![id] = IF nonEmpty THEN @ + 1 ELSE @]
    /\ UNCHANGED <<isRecording, recordingStartTime, autoStopTimers, lastStop, mediaRecorders,
                   downloads, audioVars, micVars, demoVars, visVars, gestureVars, perfVars, presetVars,
                   display>>

\* the task the browser queued at mediaRecorder.stop() for the recording
\* `id`: the dataavailable event with the rest of the data, then the stop
\* event, whose handler is onRecordingComplete()
FinalEvents(id, nonEmpty) ==
    /\ id \in 1 .. Len(mediaRecorders)
    /\ mediaRecorders[id] = "stopping"
    /\ mediaRecorders' = [mediaRecorders EXCEPT ![id] = "inactive"]
    /\ produced' = [produced EXCEPT ![id] = IF nonEmpty THEN @ + 1 ELSE @]
    /\ LET chunks == Collected(recordedChunks, id, nonEmpty)
       IN  IF chunks = <<>>
           THEN UNCHANGED <<recordedChunks, downloads>>
           ELSE /\ downloads' = Append(downloads, chunks)
                /\ recordedChunks' = <<>>
    /\ UNCHANGED <<isRecording, recordingStartTime, autoStopTimers, lastStop, audioVars,
                   micVars, demoVars, visVars, gestureVars, perfVars, presetVars, display>>

\* recorder.stopRecording(), called by the user (or by mediaRecorder.onerror)
\* or by the auto-stop timeout: `by` names the caller
stopRecording(by) ==
    /\ IF ~isRecording
       THEN UNCHANGED <<isRecording, lastStop, display, mediaRecorders>>
       ELSE /\ isRecording' = FALSE
            /\ mediaRecorders' = Stopped(mediaRecorders)
            /\ display' = [display EXCEPT !["#recording-indicator"] = "none"]
            /\ lastStop' = [by |-> by, ran |-> now - recordingStartTime]
    /\ UNCHANGED <<recordingStartTime, recordedChunks, produced, downloads>>

\* the user's stop button, or mediaRecorder.onerror
ManualStop(by) ==
    /\ stopRecording(by)
    /\ UNCHANGED <<autoStopTimers, audioVars, micVars, demoVars, visVars, gestureVars, perfVars, presetVars>>

\* the callback of the setTimeout of startRecording, due at `deadline`:
\* if (this.isRecording) this.stopRecording()
AutoStopFire(deadline) ==
    /\ deadline \in autoStopTimers
    /\ deadline <= now
    /\ autoStopTimers' = autoStopTimers \ {deadline}
    /\ stopRecording("timer")
    /\ UNCHANGED <<audioVars, micVars, demoVars, visVars, gestureVars, perfVars, presetVars, events, twin>>

\* the recorder after its constructor
RecorderConstructed ==
    /\ isRecording = FALSE
    /\ recordingStartTime = 0
    /\ autoStopTimers = {}
    /\ lastStop = NoStop
    /\ mediaRecorders = <<>>
    /\ recordedChunks = <<>>
    /\ produced = <<>>
    /\ downloads = <<>>

\* no step timeout is pending
NoTimer == -1

\* this.demoSteps: the duration of every step in milliseconds, and the
\* preset its action applies with a transition ("" where it applies none)
demoSteps ==
    <<[duration |-> 5000, preset |-> "cosmic"],  [duration |-> 6000, preset |-> "cosmic"],
      [duration |-> 6000, preset |-> "neural"],  [duration |-> 6000, preset |-> "pulse"],
      [duration |-> 6000, preset |-> "chaos"],   [duration |-> 6000, preset |-> "minimal"],
      [duration |-> 5000, preset |-> "cosmic"],  [duration |-> 5000, preset |-> ""],
      [duration |-> 4000, preset |-> ""],        [duration |-> 5000, preset |-> ""],
      [duration |-> 5000, preset |-> "cosmic"],  [duration |-> 5000, preset |-> ""],
      [duration |-> 5000, preset |-> "cosmic"]>>

\* overlay fade-out of stop(), in milliseconds
FadeOut == 500

\* the demo mode after its constructor: the overlay is created with
\* display: none
DemoConstructed ==
    /\ demoActive = FALSE
    /\ currentStep = 0
    /\ stepTimeout = NoTimer
    /\ overlay = "none"
    /\ hideTimers = {}
    /\ demoActions = <<>>

\* what every demo step leaves alone
StepIdle ==
    UNCHANGED <<audioVars, fieldVars, time, spiralAngle, bassIntensity, midIntensity,
                trebleIntensity, spikeIntensity, particleConnections, isRunning, rafOrder,
                frames, lastTick, gestureVars, perfVars, recorderVars, micVars, display>>

\* this.demoSteps[step].action(), step counted from 0
StepAction(step) ==
    CASE step = 6 ->
             applyPresetAfter("cosmic", TRUE,
                              IF trail.effect THEN trail
                              ELSE [trail EXCEPT !.effect = ~trail.effect])
      [] step = 7  -> toggleRadialSymmetry
      [] step = 8  -> DemoPalette
      [] step = 9  -> DemoPulse
      [] step = 11 -> StepIdle /\ UNCHANGED <<gateVars, camera, radialSymmetry, trail,
                                              visualMode, presetVars>>
      [] OTHER     -> applyPreset(demoSteps[step + 1].preset, TRUE)

\* everything outside the demo mode
DemoIdle ==
    /\ StepIdle
    /\ UNCHANGED <<gateVars, camera, radialSymmetry, trail, visualMode, presetVars>>

\* stop() while the demo is active: the step timeout is cleared, and the
\* overlay is hidden by a timeout FadeOut later, whose handle is dropped
DemoStopped ==
    /\ demoActive' = FALSE
    /\ stepTimeout' = NoTimer
    /\ hideTimers' = hideTimers \cup {now + FadeOut}

\* runDemoStep() while the demo is active and this.currentStep = step is
\* not past the last step: the step's action, and the timeout of the next
DemoStepRuns(step) ==
    /\ StepAction(step)
    /\ stepTimeout' = now + demoSteps[step + 1].duration

\* demoMode.start(): nothing while active; else the overlay is shown and
\* runDemoStep() runs the first step
DemoStart ==
    IF demoActive
    THEN DemoIdle /\ UNCHANGED demoVars
    ELSE /\ demoActive' = TRUE
         /\ currentStep' = 0
         /\ overlay' = "block"
         /\ DemoStepRuns(0)
         /\ demoActions' = <<0>>
         /\ UNCHANGED hideTimers

\* demoMode.stop(), called by the user or by the keydown handler
DemoStop ==
    /\ IF demoActive
       THEN DemoStopped /\ UNCHANGED <<currentStep, overlay, demoActions>>
       ELSE UNCHANGED demoVars
    /\ DemoIdle

\* the callback of the step timeout: this.currentStep++; this.runDemoStep(),
\* which calls stop() when the demo is inactive or past its last step
DemoStepTimer ==
    /\ stepTimeout # NoTimer
    /\ stepTimeout <= now
    /\ currentStep' = currentStep + 1
    /\ IF ~demoActive
       THEN /\ stepTimeout' = NoTimer
            /\ DemoIdle
            /\ UNCHANGED <<demoActive, overlay, hideTimers, demoActions>>
       ELSE IF currentStep + 1 >= Len(demoSteps)
            THEN /\ DemoStopped
                 /\ DemoIdle
                 /\ UNCHANGED <<overlay, demoActions>>
            ELSE /\ DemoStepRuns(currentStep + 1)
                 /\ demoActions' = Append(demoActions, currentStep + 1)
                 /\ UNCHANGED <<demoActive, overlay, hideTimers>>

\* the callback of the setTimeout of stop(), due at `deadline`:
\* this.overlayElement.style.display = 'none'
DemoHideTimer(deadline) ==
    /\ deadline \in hideTimers
    /\ deadline <= now
    /\ hideTimers' = hideTimers \ {deadline}
    /\ overlay' = "none"
    /\ DemoIdle
    /\ UNCHANGED <<demoActive, currentStep, stepTimeout, demoActions>>

\* the deadlines of the pending timeouts of the demo mode
DemoDeadlines == hideTimers \cup (IF stepTimeout = NoTimer THEN {} ELSE {stepTimeout})

\* the clock advancing to `later`, no timeout of the demo being overdue then
DemoWait(later) ==
    /\ later > now
    /\ \A deadline \in DemoDeadlines : later <= deadline
    /\ now' = later
    /\ UNCHANGED <<analyser, dataArray, sampleRate, lastBeatTime, currentBeat,
                   currentAverage, beatDetected, lastResult, beats, calls, constInput,
                   preludeLeft, visVars, gestureVars, perfVars, presetVars, recorderVars,
                   micVars, demoVars, display>>

\* the inline display of the elements once the page and the constructors
\* have run: the previews and the indicator are created with display: none
PageLoaded ==
    [el \in Elements |->
        IF el \in {"#webcam-preview", "#gesture-overlay", "#recording-indicator"}
        THEN "none"
        ELSE ""]

\* the gesture controller, the performance mode, the preset manager and
\* the recorder after their constructors
ControlsConstructed ==
    /\ commands = [freeze |-> FALSE, pulse |-> FALSE, colorPalette |-> 0]
    /\ currentGesture = "none"
    /\ pulseTimers = {}
    /\ palmGestures = 0
    /\ gestureHistory = <<>>
    /\ detections = <<>>
    /\ fired = {}
    /\ session = NoSession
    /\ gestureRunning = FALSE
    /\ inFlight = 0
    /\ stopped = FALSE
    /\ startsAwaiting = 0
    /\ liveStreams = 0
    /\ liveIntervals = 0
    /\ perfActive = FALSE
    /\ reducedParticles = FALSE
    /\ originalParticleCount = 0
    /\ perfTimers = {}
    /\ hiddenElements = <<>>
    /\ displayBefore = PageLoaded
    /\ display = PageLoaded
    /\ currentPreset = "cosmic"
    /\ transition = Null
    /\ presetCall = [count |-> 0, name |-> "cosmic", started |-> FALSE]
    /\ RecorderConstructed
    /\ DemoConstructed
    /\ events = 0

\* the controls after their constructors, no second run being followed
InitControls == ControlsConstructed /\ twin = Null

\* ------------------------------------------------------------------------
\* Specifications
\* ------------------------------------------------------------------------


\* the AudioEngine after its constructor: initAudioContext either succeeds
\* or fails in the try block before the analyser is created
InitAudio(rates, outcomes, inputs, preludes) ==
    /\ analyser \in outcomes
    /\ dataArray = IF analyser THEN ZeroArray ELSE Null
    /\ sampleRate \in rates
    /\ now = StartTime
    /\ lastBeatTime = 0
    /\ currentBeat = 0
    /\ currentAverage = 0
    /\ beatDetected = FALSE
    /\ lastResult = NoResult
    /\ beats = <<>>
    /\ calls = 0
    /\ constInput \in inputs
    /\ preludeLeft \in preludes
    /\ isMicActive = FALSE
    /\ micStream = FALSE
    /\ sourceNode = "none"
    /\ micAwaiting = 0
    /\ liveMicStreams = 0

\* the branch of toggleMicrophone() taken while isMicActive: the tracks of
\* micStream are stopped and the source is disconnected
MicrophoneOff ==
    /\ liveMicStreams' = IF micStream THEN liveMicStreams - 1 ELSE liveMicStreams
    /\ micStream' = FALSE
    /\ sourceNode' = "none"
    /\ isMicActive' = FALSE

\* toggleMicrophone() calls that may await getUserMedia at once
MaxMicAwaiting == 2

\* audioEngine.toggleMicrophone() up to its return or its first await: the
\* microphone is stopped while isMicActive, and requested otherwise
ToggleMicrophoneCall ==
    /\ IF isMicActive
       THEN MicrophoneOff /\ UNCHANGED micAwaiting
       ELSE /\ micAwaiting < MaxMicAwaiting
            /\ micAwaiting' = micAwaiting + 1
            /\ UNCHANGED <<isMicActive, micStream, sourceNode, liveMicStreams>>
    /\ UNCHANGED <<audioVars, visVars, gestureVars, perfVars, presetVars, recorderVars,
                   demoVars, display>>

\* toggleMicrophone() after its await: getUserMedia was rejected, or has
\* resolved with a stream that is stored in micStream at once; without an
\* audio context the next statement throws and the catch block returns
ToggleMicrophoneResolve(granted) ==
    /\ micAwaiting > 0
    /\ micAwaiting' = micAwaiting - 1
    /\ IF ~granted
       THEN UNCHANGED <<isMicActive, micStream, sourceNode, liveMicStreams>>
       ELSE /\ micStream' = TRUE
            /\ liveMicStreams' = liveMicStreams + 1
            /\ IF analyser
               THEN isMicActive' = TRUE /\ sourceNode' = "mic"
               ELSE UNCHANGED <<isMicActive, sourceNode>>
    /\ UNCHANGED <<audioVars, visVars, gestureVars, perfVars, presetVars, recorderVars,
                   demoVars, display>>

\* audioEngine.loadAudioFile(file): the microphone is toggled off if it is
\* active, and the source becomes the audio element; without an audio
\* context the first statement throws
loadAudioFile ==
    /\ IF ~analyser
       THEN UNCHANGED <<isMicActive, micStream, sourceNode, liveMicStreams>>
       ELSE /\ liveMicStreams' = IF isMicActive /\ micStream
                                 THEN liveMicStreams - 1
                                 ELSE liveMicStreams
            /\ micStream' = IF isMicActive THEN FALSE ELSE micStream
            /\ isMicActive' = FALSE
            /\ sourceNode' = "file"
    /\ UNCHANGED <<micAwaiting, audioVars, visVars, gestureVars, perfVars, presetVars,
                   recorderVars, demoVars, display>>

\* the order of the animation frame callbacks: the render tick before or
\* after the decayPulse callbacks
RafOrders == {"tickFirst", "decayFirst"}

\* the visualizer and the controls as constructed, never used
InitIdle == InitVisualizer({0}, {"tickFirst"}) /\ InitControls

Idle == UNCHANGED <<visVars, gestureVars, perfVars, recorderVars, micVars, demoVars, display, presetVars, events, twin>>

Init == InitAudio(SampleRates, BOOLEAN, {0}, {0}) /\ InitIdle

\* the feature extractor fed by the analyser
NextAudio == \E dt \in FrameSteps : \E spectrum \in Spectra(sampleRate) :
                 GetFrequencyData(dt, spectrum) /\ Idle

SpecAudio == Init /\ [][NextAudio]_vars

\* the beat detector called with arbitrary averages
InitBeat == InitAudio({44100}, {TRUE}, {0}, {0}) /\ InitIdle

NextBeat == \E dt \in ClockSteps : \E avg \in Averages : DetectBeatCall(dt, avg) /\ Idle

SpecBeat == InitBeat /\ [][NextBeat]_vars


\* the beat detector fed a constant average, after at most MaxPrelude calls
\* with arbitrary averages; the clock stops advancing at MaxConstElapsed
InitConst == InitAudio({44100}, {TRUE}, Averages, 0 .. MaxPrelude) /\ InitIdle

PreludeCall(dt, avg) ==
    /\ preludeLeft > 0
    /\ preludeLeft' = preludeLeft - 1
    /\ now + dt <= StartTime + MaxConstElapsed
    /\ now' = now + dt
    /\ calls' = Min(calls + 1, MaxBeatCalls)
    /\ detectBeat(avg, now + dt)
    /\ UNCHANGED <<analyser, dataArray, sampleRate, lastResult, constInput>>

ConstCall(dt) ==
    /\ preludeLeft = 0
    /\ now + dt <= StartTime + MaxConstElapsed
    /\ now' = now + dt
    /\ calls' = Min(calls + 1, MaxBeatCalls)
    /\ detectBeat(constInput, now + dt)
    /\ UNCHANGED <<analyser, dataArray, sampleRate, lastResult, constInput, preludeLeft>>

NextConst ==
    \/ \E dt \in ClockSteps : \E avg \in Averages : PreludeCall(dt, avg) /\ Idle
    \/ \E dt \in ClockSteps : ConstCall(dt) /\ Idle

\* the render loop keeps calling: a call is always possible (dt = 0)
SpecConst == InitConst /\ [][NextConst]_vars /\ WF_vars(NextConst)

\* the visual modes
Modes == {"cosmic", "neural", "pulse", "chaos", "minimal"}

\* milliseconds between two animation frames: 60 Hz, or a stalled page
FieldSteps == {16, 1000}

FreezeSteps == {16, 500}

\* the particle field under mode switches, presets, gestures, performance
\* mode and render ticks
InitField ==
    /\ InitAudio({44100}, {TRUE}, {0}, {0})
    /\ InitVisualizer({0, 1}, RafOrders)
    /\ InitControls

NextField ==
    \/ \E dt \in FieldSteps : \E spectrum \in {SilentSpectrum, FullSpectrum} :
           \E rnd \in RandomDraws : Frame(dt, spectrum, rnd, MaxFrames)
    \/ Event(MaxFieldEvents) /\ VisualizerStart
    \/ Event(MaxFieldEvents) /\ VisualizerStop
    \/ \E mode \in Modes : Event(MaxFieldEvents) /\ setVisualMode(mode)
    \/ Event(MaxFieldEvents) /\ toggleRadialSymmetry /\ UNCHANGED demoVars
    \/ \E name \in PresetNames : \E animate \in BOOLEAN :
           Event(MaxFieldEvents) /\ applyPreset(name, animate) /\ UNCHANGED demoVars
    \/ \E gesture \in Gestures : Event(MaxFieldEvents) /\ GestureChange(gesture)
    \/ \E deadline \in pulseTimers : PulseTimerFire(deadline)
    \/ Event(MaxFieldEvents) /\ PerformanceEnter
    \/ \E withVisualizer \in BOOLEAN :
           Event(MaxFieldEvents) /\ PerformanceExit(withVisualizer)
    \/ \E deadline \in perfTimers : PerformanceTimerFire(deadline)

SpecField == InitField /\ [][NextField]_vars

\* the freeze command read by render ticks in every mode
NextFreeze ==
    \/ \E dt \in FreezeSteps : \E spectrum \in {SilentSpectrum, StepSpectrum} :
           \E rnd \in RandomDraws : Frame(dt, spectrum, rnd, MaxFrames)
    \/ Event(MaxEvents) /\ VisualizerStart
    \/ \E mode \in Modes : Event(MaxEvents) /\ setVisualMode(mode)
    \/ Event(MaxEvents) /\ toggleRadialSymmetry /\ UNCHANGED demoVars
    \/ \E gesture \in Gestures : Event(MaxEvents) /\ GestureChange(gesture)
    \/ \E deadline \in pulseTimers : PulseTimerFire(deadline)

SpecFreeze == InitField /\ [][NextFreeze]_vars

\* a field of BarParticles particles, one more than the bars of Minimal
\* mode hold, or of ParticleCount particles, fewer than there are bars,
\* under render ticks in every mode
InitBars ==
    /\ InitAudio({44100}, {TRUE}, {0}, {0})
    /\ \E count \in {ParticleCount, BarParticles} : \E draw \in {0, 1} :
          Constructed(count, InitialPositions(count, draw), draw, RafOrders)
    /\ InitControls

NextBars ==
    \/ \E spectrum \in {SilentSpectrum, FullSpectrum, StepSpectrum} :
           \E rnd \in RandomDraws : Frame(16, spectrum, rnd, MaxFrames)
    \/ Event(MaxFieldEvents) /\ VisualizerStart
    \/ \E mode \in Modes : Event(MaxFieldEvents) /\ setVisualMode(mode)
    \/ Event(MaxFieldEvents) /\ GestureChange("fist")

SpecBars == InitBars /\ [][NextBars]_vars

\* a field of NeuralParticles particles in which the particles 5m and 5m + 1,
\* ... are drawn at the m-th of the points of createParticleSystem, so that
\* the particles updateParticlesNeural looks at are at distances 0, 82 and
\* more than 120 from one another
SpreadPositions(count, draw) ==
    [k \in 1 .. count |-> InitialPosition((k - 1) \div 5 + draw, 0)]

InitNeural ==
    /\ InitAudio({44100}, {TRUE}, {0}, {0})
    /\ \E draw \in {0, 1} :
          Constructed(NeuralParticles, SpreadPositions(NeuralParticles, draw), draw, RafOrders)
    /\ InitControls

\* render ticks in Neural and Cosmic mode, frozen or not
NextNeural ==
    \/ \E spectrum \in {SilentSpectrum, FullSpectrum} :
           \E rnd \in RandomDraws : Frame(16, spectrum, rnd, MaxFrames)
    \/ Event(MaxEvents) /\ VisualizerStart
    \/ \E mode \in {"neural", "cosmic"} : Event(MaxEvents) /\ setVisualMode(mode)
    \/ Event(MaxEvents) /\ GestureChange("fist")

SpecNeural == InitNeural /\ [][NextNeural]_vars

\* the palette under peace signs (a fist between two of them), the demo
\* and render ticks
NextPalette ==
    \/ \E rnd \in RandomDraws : Frame(16, SilentSpectrum, rnd, MaxFrames)
    \/ Event(MaxPaletteEvents) /\ VisualizerStart
    \/ \E gesture \in {"fist", "peace"} : Event(MaxPaletteEvents) /\ GestureChange(gesture)
    \/ Event(MaxPaletteEvents) /\ DemoPalette /\ UNCHANGED demoVars

SpecPalette == InitField /\ [][NextPalette]_vars

\* the end-to-end scenario: Cosmic ticks, frozen or not, on a field of
\* NeuralParticles particles (of which the particles 1 and 2 sample bins of
\* the bass band), on silence and on the spectrum with the bass band at 200
NextScenario ==
    \/ \E spectrum \in {SilentSpectrum, BassSpectrum(sampleRate)} :
           \E rnd \in RandomDraws : Frame(16, spectrum, rnd, MaxFrames)
    \/ Event(MaxFieldEvents) /\ VisualizerStart
    \/ Event(MaxFieldEvents) /\ GestureChange("fist")

SpecScenario == InitNeural /\ [][NextScenario]_vars

\* handler calls and waits of the recorder
MaxRecorderEvents == 7

\* milliseconds between two calls of the user
RecorderSteps == {60000, 120000}

\* the clock advancing by dt, no timeout being overdue afterwards
RecorderWait(dt) ==
    /\ \A deadline \in autoStopTimers : now + dt <= deadline
    /\ now' = now + dt
    /\ UNCHANGED <<analyser, dataArray, sampleRate, lastBeatTime, currentBeat,
                   currentAverage, beatDetected, lastResult, beats, calls, constInput,
                   preludeLeft, visVars, gestureVars, perfVars, presetVars, recorderVars, micVars, demoVars, display>>

\* the record and stop buttons pressed at arbitrary times
NextRecorder ==
    \/ \E ok \in BOOLEAN : Event(MaxRecorderEvents) /\ startRecording(ok)
    \/ \E by \in {"manual", "error"} : Event(MaxRecorderEvents) /\ ManualStop(by)
    \/ \E dt \in RecorderSteps : Event(MaxRecorderEvents) /\ RecorderWait(dt)
    \/ \E deadline \in autoStopTimers : AutoStopFire(deadline)

\* the recorder constructed on a running audio engine
InitRecorder == InitAudio({44100}, {TRUE}, {0}, {0}) /\ InitIdle

SpecRecorder == InitRecorder /\ [][NextRecorder]_vars

\* handler calls and waits of the performance mode
MaxPerformanceEvents == 6

\* the performance mode entered and left, by the button (with the
\* visualizer) and by the Escape key (without), while recordings and the
\* gesture controller start and stop
NextPerformance ==
    \/ Event(MaxPerformanceEvents) /\ PerformanceEnter
    \/ \E withVisualizer \in BOOLEAN :
           Event(MaxPerformanceEvents) /\ PerformanceExit(withVisualizer)
    \/ \E deadline \in perfTimers : PerformanceTimerFire(deadline)
    \/ Event(MaxPerformanceEvents) /\ startRecording(TRUE)
    \/ Event(MaxPerformanceEvents) /\ ManualStop("manual")
    \/ Event(MaxPerformanceEvents) /\ GestureStart(TRUE)
    \/ Event(MaxPerformanceEvents) /\ GestureStop
    \/ \E dt \in {PerfTestDelay} : Event(MaxPerformanceEvents) /\ RecorderWait(dt)

SpecPerformance == InitRecorder /\ [][NextPerformance]_vars

\* results handed to updateGesture
MaxDetections == 6

\* waits of 500 ms between two results
MaxGestureWaits == 1

\* the detection callback reporting arbitrary results
NextGesture ==
    \/ \E gesture \in Results :
           /\ Len(detections) < MaxDetections
           /\ updateGesture(gesture)
           /\ UNCHANGED <<loopVars, events, twin>>
    \/ Event(MaxGestureWaits) /\ RecorderWait(PulseHold)
    \/ \E deadline \in pulseTimers : PulseTimerFire(deadline)

SpecGesture == InitRecorder /\ [][NextGesture]_vars

\* handler calls between the frames of the preset transitions
MaxTransitionEvents == 3

\* animation frames delivered outside a transition
MaxTransitionFrames == 1

\* milliseconds between two animation frames of a transition
TransitionSteps == {500}

\* the names applyPreset is called with: presets, a name that is none, and
\* a name objects inherit
CalledNames == {"cosmic", "neural", "unknown", "constructor"}

\* an animation frame; one is always delivered while a transition runs
TransitionFrame ==
    \E dt \in TransitionSteps : \E rnd \in {ZeroVec} :
        Frame(dt, SilentSpectrum, rnd,
              IF transition # Null THEN frames + 1 ELSE MaxTransitionFrames)

\* preset switches and effect toggles between the frames; the mode is set
\* by the preset manager only
NextTransition ==
    \/ TransitionFrame
    \/ Event(MaxTransitionEvents) /\ VisualizerStart
    \/ \E name \in CalledNames : \E animate \in BOOLEAN :
           Event(MaxTransitionEvents) /\ applyPreset(name, animate) /\ UNCHANGED demoVars
    \/ Event(MaxTransitionEvents) /\ toggleTrailEffect /\ UNCHANGED demoVars
    \/ Event(MaxTransitionEvents) /\ toggleRadialSymmetry /\ UNCHANGED demoVars

SpecPresetCalls == InitBeat /\ [][NextTransition]_vars

\* TransitionFrame can be taken
FrameEnabled == transition # Null \/ frames < MaxTransitionFrames

\* the browser keeps delivering animation frames: weak fairness of
\* TransitionFrame, written with the condition under which it is enabled
FramesDelivered == []<>(~FrameEnabled) \/ []<><<frames' = frames + 1>>_vars

SpecTransition == InitBeat /\ [][NextTransition]_vars /\ FramesDelivered

\* handler calls, detections and waits of the gesture controller
MaxLoopEvents == 7

\* the gesture controller started and stopped while detections run
NextLoop ==
    \/ \E ok \in BOOLEAN : Event(MaxLoopEvents) /\ GestureStart(ok)
    \/ Event(MaxLoopEvents) /\ GestureStop
    \/ Event(MaxLoopEvents) /\ DetectBegin
    \/ \E gesture \in {"fist", "palm", "none"} :
           DetectEnd(gesture) /\ UNCHANGED <<events, twin>>
    \/ Event(MaxLoopEvents) /\ RecorderWait(PulseHold)
    \/ \E deadline \in pulseTimers : PulseTimerFire(deadline)

SpecLoop == InitRecorder /\ [][NextLoop]_vars

\* start() and stop() calls of the gesture controller, the webcam permission
\* being granted or denied at any later moment, while detections run
MaxStartEvents == 6

NextStart ==
    \/ Event(MaxStartEvents) /\ GestureStartCall
    \/ \E ok \in BOOLEAN : GestureStartResolve(ok) /\ UNCHANGED <<events, twin>>
    \/ Event(MaxStartEvents) /\ GestureStop
    \/ Event(MaxStartEvents) /\ DetectBegin
    \/ \E gesture \in {"fist", "palm", "none"} :
           DetectEnd(gesture) /\ UNCHANGED <<events, twin>>

SpecStart == InitRecorder /\ [][NextStart]_vars

\* handler calls of the audio sources
MaxMicEvents == 8

\* the audio engine with and without an audio context
InitMic == InitAudio({44100}, BOOLEAN, {0}, {0}) /\ InitIdle

\* the microphone button and the file input used in any order, the
\* microphone permission being granted or denied at any later moment
NextMic ==
    \/ Event(MaxMicEvents) /\ ToggleMicrophoneCall
    \/ \E granted \in BOOLEAN : ToggleMicrophoneResolve(granted) /\ UNCHANGED <<events, twin>>
    \/ Event(MaxMicEvents) /\ loadAudioFile

SpecMic == InitMic /\ [][NextMic]_vars

\* recordings started, and chunks delivered by one MediaRecorder
MaxRecordings == 3

MaxChunks == 2

\* recordings started and stopped while the MediaRecorders deliver their
\* chunks and their final events at any later moment
NextChunks ==
    \/ /\ Len(mediaRecorders) < MaxRecordings
       /\ startRecording(TRUE)
       /\ UNCHANGED <<events, twin>>
    \/ ManualStop("manual") /\ isRecording /\ UNCHANGED <<events, twin>>
    \/ \E id \in 1 .. Len(mediaRecorders) : \E nonEmpty \in BOOLEAN :
           /\ produced[id] < MaxChunks
           /\ DataAvailable(id, nonEmpty)
           /\ UNCHANGED <<events, twin>>
    \/ \E id \in 1 .. Len(mediaRecorders) : \E nonEmpty \in BOOLEAN :
           /\ produced[id] < MaxChunks \/ ~nonEmpty
           /\ FinalEvents(id, nonEmpty)
           /\ UNCHANGED <<events, twin>>

SpecChunks == InitRecorder /\ [][NextChunks]_vars

\* handler calls and short waits of the demo mode
MaxDemoEvents == 4

\* milliseconds between two calls of the user, less than the fade-out
DemoPause == 250

\* the demo started and stopped at any moment, also shortly after one
\* another, while its timeouts run when they are due
NextDemo ==
    \/ Event(MaxDemoEvents) /\ DemoStart
    \/ Event(MaxDemoEvents) /\ DemoStop
    \/ DemoStepTimer /\ UNCHANGED <<events, twin>>
    \/ \E deadline \in hideTimers : DemoHideTimer(deadline) /\ UNCHANGED <<events, twin>>
    \/ Event(MaxDemoEvents) /\ DemoWait(now + DemoPause)
    \/ \E deadline \in DemoDeadlines : DemoWait(deadline) /\ UNCHANGED <<events, twin>>

SpecDemo == InitBeat /\ [][NextDemo]_vars

\* the camera shake under render ticks, frozen or not, on spectra with a loud
\* and with a quiet bass band
NextShake ==
    \/ \E dt \in FrameSteps :
           \E spectrum \in {SilentSpectrum, FullSpectrum, BassSpectrum(sampleRate),
                            QuietBassSpectrum(sampleRate)} :
               \E rnd \in RandomDraws : Frame(dt, spectrum, rnd, MaxFrames)
    \/ Event(MaxFieldEvents) /\ VisualizerStart
    \/ Event(MaxFieldEvents) /\ GestureChange("fist")

SpecShake == InitField /\ [][NextShake]_vars

\* the pulse command read by render ticks at 60 Hz while one signal plays:
\* silence, or every bin at 255
InitPulse ==
    /\ InitAudio({44100}, {TRUE}, {0, MaxByte}, {0})
    /\ InitVisualizer({0}, RafOrders)
    /\ InitControls

PlayedSpectrum == <<Run(BufferLength, constInput)>>

NextPulse ==
    \/ \E rnd \in {ZeroVec} : Frame(16, PlayedSpectrum, rnd, MaxPulseFrames)
    \/ Event(MaxPulseEvents) /\ VisualizerStart
    \/ \E gesture \in Gestures : Event(MaxPulseEvents) /\ GestureChange(gesture)
    \/ \E deadline \in pulseTimers : PulseTimerFire(deadline)

SpecPulse == InitPulse /\ [][NextPulse]_vars

\* handler calls between the frames of the decaying pulse
MaxDecayEvents == 2

\* animation frames delivered while no pulse is active
MaxDecayFrames == 2

\* an animation frame at 60 Hz: delivered as long as a pulse is active, and
\* MaxDecayFrames times otherwise
DecayFrame ==
    \E rnd \in {ZeroVec} :
        Frame(16, PlayedSpectrum, rnd, IF pulseEffect THEN frames + 1 ELSE MaxDecayFrames)

\* the condition under which DecayFrame can be taken
DecayFrameEnabled ==
    /\ pulseEffect \/ frames < MaxDecayFrames
    /\ \A d \in pulseTimers \cup perfTimers : d > now

\* pulses triggered by palm gestures and by the demo, also while a pulse
\* is decaying, and the frames that decay them; the visualizer is started
\* before the first frame or never
NextDecay ==
    \/ DecayFrame
    \/ ~isRunning /\ frames = 0 /\ VisualizerStart /\ UNCHANGED <<events, twin>>
    \/ Event(MaxDecayEvents) /\ GestureChange("palm")
    \/ Event(MaxDecayEvents) /\ DemoPulse /\ UNCHANGED demoVars
    \/ \E deadline \in pulseTimers : PulseTimerFire(deadline)

\* the browser delivers an animation frame whenever one is requested, and
\* runs a timeout that is due
DecayFramesDelivered ==
    /\ []<>(~DecayFrameEnabled) \/ []<><<frames' = frames + 1>>_vars
    /\ WF_vars(\E deadline \in pulseTimers : PulseTimerFire(deadline))

\* silence playing
InitDecay ==
    /\ InitAudio({44100}, {TRUE}, {0}, {0})
    /\ InitVisualizer({0}, RafOrders)
    /\ InitControls

SpecDecay == InitDecay /\ [][NextDecay]_vars /\ DecayFramesDelivered

\* a field whose first particle is exactly at the origin, the other
\* particles where createParticleSystem put them
OriginPositions(draw) == [InitialPositions(ParticleCount, draw) EXCEPT ![1] = ZeroVec]

InitOrigin ==
    /\ InitAudio({44100}, {TRUE}, {0}, {0})
    /\ \E draw \in {0, 1} :
          Constructed(ParticleCount, OriginPositions(draw), draw, RafOrders)
    /\ InitControls

\* render ticks in every mode on a field with a particle at the origin
NextOrigin ==
    \/ \E spectrum \in {SilentSpectrum, FullSpectrum, StepSpectrum} :
           \E rnd \in RandomDraws : Frame(16, spectrum, rnd, MaxFrames)
    \/ Event(MaxFieldEvents) /\ VisualizerStart
    \/ \E mode \in Modes : Event(MaxFieldEvents) /\ setVisualMode(mode)

SpecOrigin == InitOrigin /\ [][NextOrigin]_vars

\* preset switches, animated or not, between render ticks
NextPreset ==
    \/ \E dt \in FieldSteps : \E spectrum \in {SilentSpectrum, FullSpectrum} :
           \E rnd \in RandomDraws : Frame(dt, spectrum, rnd, MaxFrames)
    \/ Event(MaxEvents) /\ VisualizerStart
    \/ \E name \in PresetNames : \E animate \in BOOLEAN :
           Event(MaxEvents) /\ applyPreset(name, animate) /\ UNCHANGED demoVars

SpecPreset == InitField /\ [][NextPreset]_vars

\* the field createParticleSystem makes in a second run
ConstructedField(count, draw) ==
    Field(InitialPositions(count, draw),
          [k \in 1 .. count |-> ZeroVec],
          [k \in 1 .. count |-> InitialColor(k - 1, draw)],
          [k \in 1 .. count |-> InitialSize(k - 1, draw)],
          [x \in 1 .. 3 * count |-> InitialPosition((x - 1) \div 3, draw)[((x - 1) % 3) + 1]])

\* two independent runs of the visualizer, each with its own Math.random()
InitReplay ==
    /\ InitAudio({44100}, {TRUE}, {0}, {0})
    /\ InitVisualizer({0, 1}, RafOrders)
    /\ ControlsConstructed
    /\ twin \in {ConstructedField(ParticleCount, draw) : draw \in {0, 1}}

\* both runs in one of the modes cosmic, neural, pulse and minimal, fed the
\* same spectra and the same gestures
NextReplay ==
    \/ \E dt \in FreezeSteps : \E spectrum \in {SilentSpectrum, FullSpectrum} :
           \E rnd \in RandomDraws : Frame(dt, spectrum, rnd, MaxFrames)
    \/ Event(MaxFieldEvents) /\ VisualizerStart
    \/ \E mode \in Modes \ {"chaos"} : Event(MaxFieldEvents) /\ setVisualMode(mode)
    \/ \E gesture \in Gestures : Event(MaxFieldEvents) /\ GestureChange(gesture)
    \/ \E deadline \in pulseTimers : PulseTimerFire(deadline)

SpecReplay == InitReplay /\ [][NextReplay]_vars

\* ------------------------------------------------------------------------
\* Claims about the beat detector and the feature extractor
\* ------------------------------------------------------------------------

\* C1: two detectBeat calls that both report a beat are never closer
\* together than beatMinInterval, whatever the averages and the
\* (non-decreasing) clock readings.
C1_BeatsApart ==
    \A i \in 1 .. Len(beats) : \A j \in 1 .. Len(beats) :
        i < j => beats[j] - beats[i] >= BeatMinInterval

C1_TwoBeats == Len(beats) >= 2

\* C2, as claimed: a call reports a beat iff at least beatMinInterval ms
\* have elapsed since the last reported beat and the average is strictly
\* above 1.3 times the running level from before the call; a firing call
\* sets lastBeatTime to now and restarts the running level from the
\* average, and a call that does not fire leaves lastBeatTime alone.
C2_FiresIffAtLeastInterval ==
    [][calls' = calls + 1 =>
          /\ beatDetected' <=>
                 (/\ now' - lastBeatTime >= BeatMinInterval
                  /\ currentAverage' * 10 > currentBeat * BeatThresholdTenths)
          /\ beatDetected' =>
                 (/\ lastBeatTime' = now'
                  /\ currentBeat' = DecayBeat(currentAverage', currentAverage'))
          /\ (~beatDetected') => lastBeatTime' = lastBeatTime]_vars

\* the epsilon of "converges within epsilon": half a magnitude unit
Epsilon == Milli \div 2

C4_BandsNormalized ==
    lastResult.frequencyData = "dataArray" =>
        /\ \A name \in BandNames :
               /\ lastResult.bands[name] # NaN
               /\ 0 <= lastResult.bands[name]
               /\ lastResult.bands[name] <= Milli
        /\ dataArray = FullSpectrum =>
               \A name \in BandNames : lastResult.bands[name] = Milli

\* C5: without analyser or spectrum buffer, getFrequencyData returns the
\* all-zero feature vector with beat = false and leaves the beat detector
\* state alone.
C5_MissingInputIsQuiet ==
    [][(calls' = calls + 1 /\ ((~analyser) \/ dataArray = Null)) =>
          /\ lastResult'.average = 0
          /\ lastResult'.beatIntensity = 0
          /\ lastResult'.beat = FALSE
          /\ \A name \in BandNames : lastResult'.bands[name] = 0
          /\ currentBeat' = currentBeat
          /\ lastBeatTime' = lastBeatTime]_vars

C5_DefaultReturned ==
    /\ ~analyser
    /\ calls > 0
    /\ lastResult.frequencyData = "zeros"


\* ------------------------------------------------------------------------
\* Claims about the particle field and the gesture command gate
\* ------------------------------------------------------------------------

\* C6: after any sequence of mode switches, preset changes, gestures,
\* pulses, render ticks and performance-mode entries and exits, the
\* particle count and the lengths of the position, velocity, color and
\* size arrays are the ones the constructor set up.
C6_FieldSizeConstant ==
    /\ particleCount = ParticleCount
    /\ Len(particlePositions) = ParticleCount
    /\ Len(particleVelocities) = ParticleCount
    /\ Len(particleColors) = ParticleCount
    /\ Len(sizes) = ParticleCount
    /\ Len(positions) = 3 * ParticleCount

\* performance mode was left with the visualizer after its timer had set
\* reducedParticles, so that restoreOptimizations wrote particleCount
C6_CountRestored ==
    /\ frames >= 1
    /\ originalParticleCount = ParticleCount
    /\ perfTimers = {}
    /\ ~perfActive
    /\ ~reducedParticles

RECURSIVE TickBound(_)
\* ceil(log(0.1 / start) / log(0.85)) for a start above 0.1: the least n
\* with start * 0.85^n <= 0.1 (start in units of 1/Micro)
TickBound(start) ==
    IF start * 10 <= Micro THEN 0 ELSE 1 + TickBound((start * 85) \div 100)

\* an intensity in units of 1/Milli, in units of 1/Micro
InMicro(intensity) == intensity * (Micro \div Milli)

\* C8, as claimed: after triggerPulse(I), pulseIntensity strictly decreases
\* in every following frame and is exactly 0, with pulseEffect cleared,
\* once ceil(log(0.1 / I) / log(0.85)) frames have passed (for I > 0.1,
\* where the bound is positive).
C8_ClearedWithinClaimedBound ==
    /\ []((pulsesStarted > 0 /\ pulseArg * 10 > Milli
               /\ pulseAge >= TickBound(InMicro(pulseArg)))
            => (~pulseEffect /\ pulseIntensity = 0))
    /\ [][(frames' = frames + 1 /\ pulseEffect /\ pulsesStarted' = pulsesStarted)
              => pulseIntensity' < pulseIntensity]_vars

\* C8, amended: after triggerPulse(I), pulseIntensity strictly decreases
\* in every following frame and is exactly 0, with pulseEffect cleared,
\* once ceil(log(0.1 / (I + 1.5)) / log(0.85)) frames have passed.
C8_ClearedWithinOffsetBound ==
    /\ []((pulsesStarted > 0
               /\ pulseAge >= TickBound(InMicro(pulseArg) + (3 * Micro) \div 2))
            => (~pulseEffect /\ pulseIntensity = 0))
    /\ [][(frames' = frames + 1 /\ pulseEffect /\ pulsesStarted' = pulsesStarted)
              => pulseIntensity' < pulseIntensity]_vars

\* a pulse triggered with I > 0.1 has cleared, later than the claimed bound
C8_ClearedAfterClaimedBound ==
    /\ pulsesStarted = 1
    /\ pulseArg * 10 > Milli
    /\ pulseAge > TickBound(InMicro(pulseArg))
    /\ pulseAge < TickBound(InMicro(pulseArg) + (3 * Micro) \div 2)
    /\ ~pulseEffect
    /\ pulseIntensity = 0

\* C9, as claimed: one palm gesture starts exactly one pulse, however many
\* render ticks read commands.pulse while it is held: there are never more
\* pulses started than palm gestures made.
C9_OnePulsePerPalm == pulsesStarted <= palmGestures

\* C10: a render tick starts a pulse exactly when it reads commands.pulse
\* true while no pulse is active; a pulse command read while a pulse is
\* active leaves the pulse decaying as it was, neither restarted nor
\* extended.
C10_GateOpensIffCommandAndIdle ==
    [][(frames' = frames + 1 /\ lastTick'.ran) =>
          /\ pulsesStarted' \in {pulsesStarted, pulsesStarted + 1}
          /\ (pulsesStarted' = pulsesStarted + 1)
                 <=> (commands.pulse /\ ~lastTick'.activeBefore)
          /\ (commands.pulse /\ lastTick'.activeBefore) =>
                 /\ pulseIntensity' < pulseIntensity
                 /\ pulseArg' = pulseArg
                 /\ pulseAge' = pulseAge + 1]_vars

\* a tick read the pulse command while the first pulse was still active,
\* and a later tick, after that pulse had cleared, started the second
C10_HeldThenRetriggered ==
    /\ lastTick.ran
    /\ commands.pulse
    /\ lastTick.activeBefore
    /\ pulsesStarted = 2
    /\ pulseAge >= 2


\* ------------------------------------------------------------------------
\* Claims about the mode rules
\* ------------------------------------------------------------------------

\* C11, as claimed: in every visual mode, a render tick (not frozen) on a
\* particle exactly at the origin leaves its position and its velocity
\* finite.
C11_OriginStaysFinite ==
    [][(frames' = frames + 1 /\ isRunning /\ ~commands.freeze) =>
          \A k \in 1 .. ParticleCount :
              particlePositions[k] = ZeroVec =>
                  /\ particlePositions'[k] # NaNVec
                  /\ particleVelocities'[k] # NaNVec]_vars

\* C12, as claimed: once a preset has been requested, the very next
\* render tick runs the update rule of the mode of that preset (every
\* preset is named after its visual mode).
C12_NextTickRunsRequestedMode ==
    [][(frames' = frames + 1 /\ isRunning) => visualMode = currentPreset]_vars

\* C13, as claimed: two independent runs in the same mode (cosmic, neural,
\* pulse or minimal) fed the same features and gesture commands have the
\* same particle positions after every render tick.
C13_RunsAgree ==
    (twin # Null /\ lastTick.ran) => twin.P = particlePositions

\* ------------------------------------------------------------------------
\* Claims about the running level, the camera shake and the sampling
\* ------------------------------------------------------------------------

\* C14: after every detectBeat call, fired or not, currentBeat equals
\* max(0.98 * L, 0.5 * currentAverage), L being currentAverage if the call
\* fired and the previous currentBeat otherwise; so currentBeat is never
\* below half the current average, and the reported beatIntensity lies in
\* [0, 1].
C14_LevelDecaysOntoFloor ==
    [][(calls' = calls + 1 /\ analyser) =>
          LET L == IF beatDetected' THEN currentAverage' ELSE currentBeat
          IN  /\ currentBeat' = Max((L * 98) \div 100, currentAverage' \div 2)
              /\ currentBeat' >= currentAverage' \div 2
              /\ lastResult'.beatIntensity = currentBeat' \div MaxByte
              /\ lastResult'.beatIntensity \in 0 .. Milli]_vars

\* a call fired, and a later call that did not fire left the level on the
\* floor of half its average
C14_FiredThenOnFloor ==
    /\ analyser
    /\ Len(beats) >= 1
    /\ ~beatDetected
    /\ currentAverage > 0
    /\ currentBeat = currentAverage \div 2
    /\ lastResult.beatIntensity = currentBeat \div MaxByte

\* C15: with an input average of zero on every call, from any starting
\* level, no call reports a beat, no call raises currentBeat, every call on
\* a positive level lowers it, and the level ends within epsilon of 0.
C15_SilenceDecaysToZero ==
    /\ [][(preludeLeft = 0 /\ constInput = 0) =>
              /\ ~beatDetected'
              /\ beats' = beats
              /\ currentBeat' <= currentBeat
              /\ currentBeat > 0 => currentBeat' < currentBeat]_vars
    /\ (constInput = 0) => <>[](preludeLeft = 0 /\ currentBeat <= Epsilon)

\* the first call fired on a loud average and left a positive level, which
\* the calls with average zero since then have lowered without a beat
C15_DecayingAfterLoudStart ==
    /\ preludeLeft = 0
    /\ constInput = 0
    /\ currentAverage = 0
    /\ Len(beats) = 1
    /\ calls >= 3
    /\ currentBeat > 0
    /\ currentBeat < ((MaxByte * Milli * 98) \div 100) - Milli

\* C16: on a beat tick the shake intensity is set to bass * 10, and on every
\* tick, beat or not, frozen or not, it is then multiplied by 0.9; after
\* the tick the shake offset is (0, 0, 0) when the intensity is at most 0.1,
\* and otherwise each component has magnitude at most half the intensity
\* (to two hundredths of a scene unit, the rounding of the two products).
C16_ShakeSetDecayedAndBounded ==
    [][(frames' = frames + 1 /\ isRunning) =>
          LET hit == IF lastResult'.beat
                     THEN lastResult'.bands.bass * 10
                     ELSE camera.shakeIntensity
              s   == camera'.shakeIntensity
          IN  /\ s = (hit * 9) \div 10
              /\ s * 10 <= Milli => camera'.shake = ZeroVec
              /\ s * 10 > Milli =>
                     \A k \in 1 .. 3 :
                         2 * Milli * Abs(camera'.shake[k]) <= s * Centi + 4 * Milli]_vars

\* a beat on a loud bass set the shake, and the tick after it, without a
\* beat, decayed it and drew an offset
C16_ShakeDecaying ==
    /\ isRunning
    /\ frames = 2
    /\ Len(beats) = 1
    /\ ~lastResult.beat
    /\ camera.shakeIntensity = (Milli * 10 * 9 * 9) \div 100
    /\ camera.shake # ZeroVec

Sampled == {i \in 0 .. particleCount - 1 : i % 5 = 0 /\ i < 200}

\* C18: after every non-frozen tick in Neural mode the connections are
\* exactly the pairs (i, j), i < j, of the particles 0, 5, ..., 195 (at
\* most 40, hence at most 780 pairs, whatever N is) whose distance after
\* the tick is below 60 + midIntensity * 30, each pair once: no connection
\* of an earlier tick survives.
C18_ConnectionsRebuilt ==
    [][(frames' = frames + 1 /\ isRunning /\ visualMode = "neural" /\ ~lastTick'.frozen) =>
          LET threshold == 60 * Centi + (midIntensity' * 30 * Centi) \div Milli
              P         == particlePositions'
              near(i, j) ==
                  /\ P[i + 1] # NaNVec
                  /\ P[j + 1] # NaNVec
                  /\ Length(<<P[i + 1][1] - P[j + 1][1], P[i + 1][2] - P[j + 1][2],
                              P[i + 1][3] - P[j + 1][3]>>) < threshold
              pairs     == {<<i, j>> \in Sampled \X Sampled : i < j /\ near(i, j)}
              lines     == particleConnections'
          IN  /\ Cardinality(Sampled) <= 40
              /\ Len(lines) <= 780
              /\ {<<lines[c].from, lines[c].to>> : c \in 1 .. Len(lines)} = pairs
              /\ Len(lines) = Cardinality(pairs)]_vars

\* a second Neural tick on more than 200 particles, on silence after a
\* tick on a full spectrum: the connections of the pairs 82 units apart,
\* made under the threshold 105 of the first tick, are gone, and those of
\* the particles close to one another are there
C18_ConnectionsDropped ==
    /\ lastTick.ran
    /\ ~lastTick.frozen
    /\ visualMode = "neural"
    /\ particleCount > 200
    /\ frames = 2
    /\ Len(beats) = 1
    /\ midIntensity = 0
    /\ particleConnections # <<>>
    /\ \A c \in 1 .. Len(particleConnections) :
           /\ particleConnections[c].to < 200
           /\ (particleConnections[c].to - particleConnections[c].from) % 25 = 0

C20_PaletteFollowsCommands ==
    /\ [][(frames' = frames + 1 /\ isRunning) =>
              /\ currentPalette' = commands'.colorPalette
              /\ currentPalette' = commands.colorPalette]_vars
    /\ [](/\ currentPalette \in {0, 1, 2}
          /\ commands.colorPalette \in {0, 1, 2}
          /\ currentPalette + 1 \in DOMAIN colorPalettes)

\* a start and five gestures, three of them peace signs: a tick after the
\* second peace sign set the palette 2, and the third peace sign took the
\* command back to palette 0
C20_CycledBackToFirst ==
    /\ events = 6
    /\ isRunning
    /\ currentGesture = "peace"
    /\ lastTick.ran
    /\ currentPalette = 2
    /\ commands.colorPalette = 0

\* ------------------------------------------------------------------------
\* Claims about stopping, the end-to-end scenario and the configuration
\* ------------------------------------------------------------------------

\* C21: in a frame in which the visualizer is not running, update()
\* changes none of time, spiral angle, camera angle and shake, freeze flag,
\* palette, particle positions, velocities, colors and sizes; a tick that
\* starts runs to its end, from the first statement (time advanced) through
\* the gesture commands to the last (the camera turned by updateCamera).
C21_StoppedTickChangesNothing ==
    [][(frames' = frames + 1) =>
          IF isRunning
          THEN /\ lastTick'.ran
               /\ time' = time + Milli \div 100
               /\ isFrozen' = commands.freeze
               /\ currentPalette' = commands.colorPalette
               /\ camera'.angle = camera.angle + (2 * Milli) \div 1000
                                      + lastResult'.average \div 1000
          ELSE /\ ~lastTick'.ran
               /\ time' = time
               /\ spiralAngle' = spiralAngle
               /\ camera'.angle = camera.angle
               /\ camera'.shake = camera.shake
               /\ camera'.shakeIntensity = camera.shakeIntensity
               /\ isFrozen' = isFrozen
               /\ currentPalette' = currentPalette
               /\ particlePositions' = particlePositions
               /\ particleVelocities' = particleVelocities
               /\ particleColors' = particleColors
               /\ sizes' = sizes
               /\ positions' = positions]_vars

\* one tick ran, the visualizer was stopped, and the frame after that left
\* the clock of the animation where the tick had put it
C21_StoppedAfterOneTick ==
    /\ ~isRunning
    /\ frames = 2
    /\ ~lastTick.ran
    /\ time = Milli \div 100
    /\ camera.angle > 0

\* C22: for the spectrum whose bass-band bins are all 200 and whose other
\* bins are 0, the bass energy extracted is 200/255, bassIntensity is
\* (200/255) * 2, and one Cosmic tick uses the target radius
\* 100 + bassIntensity * 80 + freqValue * 50 for every particle, freqValue
\* being the sample of the bin floor(i/N * binCount) of the particle / 255.
C22_BassScenario ==
    [][(/\ frames' = frames + 1
        /\ isRunning
        /\ visualMode = "cosmic"
        /\ ~lastTick'.frozen
        /\ dataArray' = BassSpectrum(sampleRate)) =>
          LET first  == (60 * 2 * BufferLength) \div sampleRate
              last   == (250 * 2 * BufferLength) \div sampleRate
              sample(i) == IF (i * BufferLength) \div particleCount \in first .. last - 1
                           THEN 200
                           ELSE 0
              bass   == (200 * Milli) \div 255
          IN  /\ lastResult'.bands.bass = bass
              /\ bassIntensity' = bass * 2
              /\ Len(lastTick'.radii) = particleCount
              /\ \A k \in 1 .. particleCount :
                     lastTick'.radii[k] =
                         100 * Centi + (bass * 2 * 80 * Centi) \div Milli
                             + (((sample(k - 1) * Milli) \div 255) * 50 * Centi) \div Milli]_vars

\* a Cosmic tick on the bass spectrum: particle 1 of more than 200, whose
\* bin lies in the bass band, has a larger target radius than particle 0,
\* whose bin 0 lies below it
C22_BassTickRan ==
    /\ lastTick.ran
    /\ ~lastTick.frozen
    /\ dataArray = BassSpectrum(sampleRate)
    /\ particleCount > 200
    /\ Len(lastTick.radii) = particleCount
    /\ lastTick.radii[1] > 100 * Centi
    /\ lastTick.radii[2] > lastTick.radii[1]

C24_AutoStopAfterMaxDuration ==
    /\ lastStop.by = "timer" => lastStop.ran >= MaxDuration
    /\ isRecording => now - recordingStartTime <= MaxDuration

\* C25: an enter() that takes effect followed by the exit() that takes
\* effect leaves every element enter() hid with the display it had just
\* before enter(), hiddenElements empty and isActive false; enter() while
\* active and exit() while inactive change nothing.
C25_PerformanceRoundTrip ==
    [][/\ (perfActive /\ ~perfActive') =>
            /\ hiddenElements' = <<>>
            /\ \A k \in 1 .. Len(hiddenElements) :
                   display'[hiddenElements[k].element] =
                       displayBefore[hiddenElements[k].element]
            /\ \A el \in Elements :
                   displayBefore[el] # "none" =>
                       \E k \in 1 .. Len(hiddenElements) : hiddenElements[k].element = el
       /\ (~perfActive /\ perfActive') =>
            /\ \A el \in Elements : display'[el] = "none"
            /\ displayBefore' = display
       /\ (perfActive' = perfActive) =>
            /\ hiddenElements' = hiddenElements
            /\ (display' = display
                    \/ isRecording' # isRecording
                    \/ gestureRunning' # gestureRunning)
            /\ particleCount' = particleCount]_vars

\* the mode left after an enter() that hid the indicator of a running
\* recording and the webcam preview along with the panels: the indicator
\* is shown again as 'flex', the preview as 'block', the header with its
\* empty inline display
C25_RoundTripDone ==
    /\ ~perfActive
    /\ hiddenElements = <<>>
    /\ displayBefore["#recording-indicator"] = "flex"
    /\ displayBefore["#webcam-preview"] = "block"
    /\ display["#recording-indicator"] = "flex"
    /\ display["#webcam-preview"] = "block"
    /\ display[".header"] = ""
    /\ events >= 4

\* fist is the most common entry of the history
FistMostCommon(history) == history # <<>> /\ MostCommon(history) = "fist"

\* C26, as claimed: every detection that makes fist the most common entry
\* of the history, after no hand or another gesture was, flips
\* commands.freeze, and no other detection changes it.
C26_EveryFistGestureToggles ==
    [][(detections' # detections) =>
          IF FistMostCommon(gestureHistory') /\ ~FistMostCommon(gestureHistory)
          THEN commands'.freeze = ~commands.freeze
          ELSE commands'.freeze = commands.freeze]_vars

\* the number of entries of `results` that are g
Occurrences(results, g) == Cardinality({k \in 1 .. Len(results) : results[k] = g})

\* C27, as claimed: from the empty history, a gesture that appears in a
\* single detection result, the others being 'none', never fires its
\* command; 'none' and 'unknown' never fire one; the history never holds
\* more than 5 results.
C27_SingleDetectionNeverFires ==
    /\ \A g \in Gestures :
           (/\ Occurrences(detections, g) = 1
            /\ Occurrences(detections, "none") = Len(detections) - 1) => g \notin fired
    /\ "none" \notin fired
    /\ "unknown" \notin fired
    /\ Len(gestureHistory) <= GestureHistorySize

\* ------------------------------------------------------------------------
\* Claims about the preset transitions and the stopped gesture controller
\* ------------------------------------------------------------------------

\* C28, as claimed: an applyPreset call during a transition, or with a name
\* that is not a preset, changes neither currentPreset nor the mode, the
\* effects and the camera radius of the visualizer nor the transition.
C28_DroppedRequestChangesNothing ==
    [][(/\ presetCall'.count = presetCall.count + 1
        /\ (transition # Null \/ presetCall'.name \notin PresetNames)) =>
          /\ currentPreset' = currentPreset
          /\ visualMode' = visualMode
          /\ trail' = trail
          /\ radialSymmetry' = radialSymmetry
          /\ camera'.radius = camera.radius
          /\ transition' = transition]_vars

\* C29: every started preset transition completes, animation frames being
\* delivered and the clock advancing; at the step that completes it the
\* visualMode, trailEffect, trailOpacity, radialSymmetry and cameraRadius
\* of the visualizer are those of presets[currentPreset]; and whenever no
\* transition is in progress, the mode being set by the preset manager
\* only, visualMode is presets[currentPreset].visualMode.
C29_TransitionCompletes ==
    /\ (transition # Null) ~> (transition = Null)
    /\ [][(transition # Null /\ transition' = Null) =>
              /\ visualMode' = PresetMode(currentPreset')
              /\ trail' = PresetTrail(currentPreset')
              /\ radialSymmetry' = FALSE
              /\ camera'.radius = PresetRadius(currentPreset')]_vars
    /\ [](transition = Null => visualMode = PresetMode(currentPreset))

\* the animated switch to the Neural preset, started while the trail was
\* on, has completed a second or more later
C29_NeuralTransitionDone ==
    /\ presetCall = [count |-> 1, name |-> "neural", started |-> TRUE]
    /\ transition = Null
    /\ now >= StartTime + TransitionDuration
    /\ currentPreset = "neural"
    /\ visualMode = "neural"
    /\ trail = [effect |-> FALSE, opacity |-> Milli]
    /\ camera.radius = Units(180)

\* C30, as claimed: once stop() has returned, and until start() is called
\* again, commands.freeze and commands.pulse are false, whatever a
\* detection callback that was awaiting estimateHands and a pending pulse
\* timeout do.
C30_StoppedCommandsStayOff ==
    stopped => (~commands.freeze /\ ~commands.pulse)

\* C31, as claimed: at most one detection interval and one webcam stream exist
\* at any time, and once stop() has returned (no start() having been called
\* since) no detection interval remains scheduled and no webcam stream
\* remains live
C31_OneStreamClearedByStop ==
    /\ liveStreams <= 1
    /\ liveIntervals <= 1
    /\ stopped => (liveStreams = 0 /\ liveIntervals = 0)

\* the gestures that have a command
CommandGestures == {"fist", "palm", "peace"}

\* C32, as claimed: in a session that start() began after a stop(), no
\* gesture command has fired as long as no result handed to updateGesture
\* in that session was a fist, a palm or a peace sign
C32_NoCommandFromOldHistory ==
    (session.restarted /\ session.seen \cap CommandGestures = {}) => session.fired = {}

\* C33: in every state between two callbacks pulseEffect is true exactly
\* when pulseIntensity > 0.1, and pulseIntensity is 0 when pulseEffect is
\* false, whatever the order of the triggerPulse calls (from palm gestures
\* and from the demo, also while a decay chain is running) and of the
\* decay steps of the animation frames; and every pulse eventually clears.
C33_PulseStateConsistent ==
    /\ [](/\ pulseEffect <=> (pulseIntensity * 10 > Micro)
          /\ ~pulseEffect => pulseIntensity = 0)
    /\ pulseEffect ~> ~pulseEffect

\* the demo triggered a pulse while the decay chain of an earlier pulse was
\* running: two chains decay the one intensity
C33_TwoChainsDecaying ==
    /\ pulsesStarted >= 2
    /\ decayChains = 2
    /\ pulseEffect
    /\ pulseAge > 0

\* C34, as claimed: a render tick that runs while the active mode is not
\* Neural leaves the adjacency list (the connection lines held in the
\* scene) empty, so that connections exist only while the mode is Neural.
C34_ConnectionsOnlyInNeural ==
    [][(frames' = frames + 1 /\ lastTick'.ran /\ visualMode # "neural")
           => particleConnections' = <<>>]_vars

\* C35, as claimed: whatever the order of performance-mode enter and exit,
\* recorder start and stop and gesture start and stop, the recording
\* indicator is never displayed while isRecording is false, and the webcam
\* preview and the gesture overlay are never displayed while the gesture
\* controller is not running.
C35_IndicatorsFollowTheirOwners ==
    /\ display["#recording-indicator"] # "none" => isRecording
    /\ display["#webcam-preview"] # "none" => gestureRunning
    /\ display["#gesture-overlay"] # "none" => gestureRunning

\* C36, as claimed: isMicActive is true only if micStream holds the single
\* live microphone stream, and while isMicActive is false no stream
\* obtained by getUserMedia still has a running track, whatever the order
\* of the toggleMicrophone and loadAudioFile calls and of the answers to
\* the microphone requests.
C36_NoMicrophoneLeak ==
    /\ isMicActive => (micStream /\ liveMicStreams = 1)
    /\ ~isMicActive => liveMicStreams = 0

\* the blob made of the n chunks of the recording id
BlobOf(id, n) == [k \in 1 .. n |-> id]

\* C37, as claimed: every downloaded blob holds exactly the chunks one
\* recording produced between its start and its stop, and every recording
\* that produced data and whose MediaRecorder has delivered its final events
\* was downloaded exactly once; no chunk is lost or mixed into another
\* recording when a recording starts before the previous MediaRecorder has
\* delivered its final dataavailable and stop events.
C37_EachRecordingDownloadedOnce ==
    /\ \A d \in 1 .. Len(downloads) :
           \E id \in 1 .. Len(mediaRecorders) :
               /\ mediaRecorders[id] = "inactive"
               /\ downloads[d] = BlobOf(id, produced[id])
    /\ \A id \in 1 .. Len(mediaRecorders) :
           (mediaRecorders[id] = "inactive" /\ produced[id] > 0) =>
               Cardinality({d \in 1 .. Len(downloads) :
                                downloads[d] = BlobOf(id, produced[id])}) = 1

\* the steps 0 .. n - 1 in order
StepsUpTo(n) == [k \in 1 .. n |-> k - 1]

\* C38, as claimed: the actions of the demo steps run in order, each once,
\* and the demo ends by itself after the last step; no step action runs
\* while the demo is stopped; and whenever the demo is active its overlay
\* is displayed, also when start() is called within 500 ms of a stop().
C38_DemoRunsInOrderWithOverlay ==
    /\ [](/\ demoActions = StepsUpTo(Len(demoActions))
          /\ demoActive => (/\ currentStep < Len(demoSteps)
                            /\ Len(demoActions) = currentStep + 1
                            /\ stepTimeout # NoTimer)
          /\ ~demoActive => stepTimeout = NoTimer
          /\ demoActive => overlay = "block")
    /\ [][~demoActive' => demoActions' = demoActions]_vars

=========================================================================
